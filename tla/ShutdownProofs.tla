--------------------------- MODULE ShutdownProofs ---------------------------
(***************************************************************************)
(* Proofs about Shutdown, for every number of ports and of signals: the    *)
(* invariant of ShutdownProperties is preserved by every step.             *)
(***************************************************************************)
EXTENDS ShutdownProperties, TLAPS

USE NAssumption, MaxSignalsAssumption, FaultAssumption
USE DEF Main, Port, Thread, NoThread, Null, Object

(* The threads do nothing that is not one of these.                        *)
LEMMA Steps ==
    ASSUME Next
    PROVE  \/ MainStep
           \/ \E p \in Port : \/ InitPoller(p) \/ Poll(p) \/ SetSignalled(p)
                              \/ IsSignalled(p) \/ Pass(p) \/ Unblock(p)
                              \/ LockToSet(p) \/ LockToRead(p)
           \/ \E t \in Thread : \/ Deliver(t) \/ HandlerGets(t)
                                \/ HandlerLocks(t) \/ HandlerSets(t)
  BY DEF Next, Locking, Going

\* Every step keeps the types, the created threads the first ones, and the mutex
\* with the thread that is between lock and unlock.
LEMMA NextTypedGuarded ==
    ASSUME TypeOK, Started, Guarded, Next
    PROVE  (TypeOK /\ Started /\ Guarded)'
  <1> USE DEF TypeOK, MainStates, PollerStates, Started, Guarded, Holding
  <1>1. CASE MainStep
    <2>1. CASE RegisterSignals
      BY <2>1 DEF RegisterSignals, At, Goto, Running
    <2>2. CASE GetHandle
      BY <2>2 DEF GetHandle, At, Goto, Running
    <2>3. CASE NewHandle
      BY <2>3 DEF NewHandle, At, Goto, Running
    <2>4. CASE CreateThread
      BY <2>4 DEF CreateThread, At, Goto, Running
    <2>5. CASE EndCreation
      BY <2>5 DEF EndCreation, At, Goto, Running
    <2>6. CASE Join
      BY <2>6 DEF Join, At, Running
    <2>7. CASE JoinNothing
      BY <2>7 DEF JoinNothing, At, Goto, Die, Running
    <2>8. CASE Exit
      BY <2>8 DEF Exit, At, Goto, Running
    <2>9. CASE Caught
      BY <2>9 DEF Caught, At, Goto, Running
    <2> QED BY <1>1, <2>1, <2>2, <2>3, <2>4, <2>5, <2>6, <2>7, <2>8, <2>9 DEF MainStep
  <1>2. ASSUME NEW p \in Port, \/ InitPoller(p) \/ Poll(p) \/ SetSignalled(p)
                             \/ IsSignalled(p) \/ Pass(p) \/ Unblock(p)
                             \/ LockToSet(p) \/ LockToRead(p)
        PROVE  (TypeOK /\ Started /\ Guarded)'
    <2>1. CASE InitPoller(p)
      <3>1. CASE Goto(p, "poll")
        BY <2>1, <3>1, SMTT(30) DEF InitPoller, At, Goto, Running
      <3>2. CASE Die
        BY <2>1, <3>2, SMTT(30) DEF InitPoller, At, Goto, Die, Running
      <3> QED
        BY <2>1, <3>1, <3>2 DEF InitPoller
    <2>2. CASE Poll(p)
      <3>1. CASE Goto(p, "returned")
        BY <2>2, <3>1, SMTT(30) DEF Poll, At, Goto, Running
      <3>2. CASE Goto(p, "failed")
        BY <2>2, <3>2, SMTT(30) DEF Poll, At, Goto, Running
      <3> QED
        BY <2>2, <3>1, <3>2 DEF Poll
    <2>3. CASE SetSignalled(p)
      BY <2>3 DEF SetSignalled, At, Goto, Running, Release
    <2>4. CASE IsSignalled(p)
      BY <2>4 DEF IsSignalled, At, Goto, Running, Release
    <2>5. CASE Pass(p)
      <3>1. CASE Goto(p, "poll")
        BY <2>5, <3>1 DEF Pass, At, Goto, Running
      <3>2. CASE Die
        BY <2>5, <3>2 DEF Pass, At, Goto, Die, Running
      <3>3. CASE Goto(p, "blocked")
        BY <2>5, <3>3 DEF Pass, At, Goto, Running
      <3> QED
        BY <2>5, <3>1, <3>2, <3>3 DEF Pass
    <2>6. CASE LockToSet(p)
      BY <2>6 DEF LockToSet, At, Goto, Running, Acquire
    <2>7. CASE LockToRead(p)
      BY <2>7 DEF LockToRead, At, Goto, Running, Acquire
    <2>8. CASE Unblock(p)
      BY <2>8 DEF Unblock, At, Goto, Running
    <2> QED BY <1>2, <2>1, <2>2, <2>3, <2>4, <2>5, <2>6, <2>7, <2>8
  <1>3. ASSUME NEW t \in Thread, \/ Deliver(t) \/ HandlerGets(t)
                               \/ HandlerLocks(t) \/ HandlerSets(t)
        PROVE  (TypeOK /\ Started /\ Guarded)'
    <2>1. CASE Deliver(t)
      BY <2>1 DEF Deliver, Running
    <2>2. CASE HandlerGets(t)
      BY <2>2 DEF HandlerGets, Running
    <2>3. CASE HandlerLocks(t)
      BY <2>3 DEF HandlerLocks, Running, Acquire
    <2>4. CASE HandlerSets(t)
      BY <2>4 DEF HandlerSets, Running, Release
    <2> QED BY <1>3, <2>1, <2>2, <2>3, <2>4
  <1> QED BY <1>1, <1>2, <1>3, Steps

\* Main waits for each created thread in turn, and each thread that stops has seen
\* a flag that has a cause and stays raised.
LEMMA NextJoinedCaused ==
    ASSUME TypeOK, Started, Guarded, Joined, Caused, ExitsLast, StopsForCause, Next
    PROVE  (Joined /\ Caused /\ ExitsLast /\ StopsForCause)'
  <1> USE DEF TypeOK, MainStates, PollerStates, Started, Guarded, Joined, Caused, Cause,
              ExitsLast, StopsForCause
  <1>1. CASE MainStep
    <2>1. CASE RegisterSignals
      BY <2>1 DEF RegisterSignals, At, Goto, Running
    <2>2. CASE GetHandle
      BY <2>2 DEF GetHandle, At, Goto, Running
    <2>3. CASE NewHandle
      BY <2>3 DEF NewHandle, At, Goto, Running
    <2>4. CASE CreateThread
      BY <2>4 DEF CreateThread, At, Goto, Running
    <2>5. CASE EndCreation
      BY <2>5 DEF EndCreation, At, Goto, Running
    <2>6. CASE Join
      BY <2>6 DEF Join, At, Running
    <2>7. CASE JoinNothing
      BY <2>7 DEF JoinNothing, At, Goto, Die, Running
    <2>8. CASE Exit
      BY <2>8 DEF Exit, At, Goto, Running
    <2>9. CASE Caught
      BY <2>9 DEF Caught, At, Goto, Running
    <2> QED BY <1>1, <2>1, <2>2, <2>3, <2>4, <2>5, <2>6, <2>7, <2>8, <2>9 DEF MainStep
  <1>2. ASSUME NEW p \in Port, \/ InitPoller(p) \/ Poll(p) \/ SetSignalled(p)
                             \/ IsSignalled(p) \/ Pass(p) \/ Unblock(p)
                             \/ LockToSet(p) \/ LockToRead(p)
        PROVE  (Joined /\ Caused /\ ExitsLast /\ StopsForCause)'
    <2>1. CASE InitPoller(p)
      BY <2>1 DEF InitPoller, At, Goto, Die, Running
    <2>2. CASE Poll(p)
      BY <2>2 DEF Poll, At, Goto, Running
    <2>3. CASE SetSignalled(p)
      BY <2>3 DEF SetSignalled, At, Goto, Running, Release
    <2>4. CASE IsSignalled(p)
      BY <2>4 DEF IsSignalled, At, Goto, Running, Release
    <2>5. CASE Pass(p)
      <3>1. CASE Goto(p, "poll")
        BY <2>5, <3>1 DEF Pass, At, Goto, Running
      <3>2. CASE Die
        BY <2>5, <3>2 DEF Pass, At, Goto, Die, Running
      <3>3. CASE Goto(p, "blocked")
        BY <2>5, <3>3 DEF Pass, At, Goto, Running
      <3> QED
        BY <2>5, <3>1, <3>2, <3>3 DEF Pass
    <2>6. CASE LockToSet(p)
      BY <2>6 DEF LockToSet, At, Goto, Running, Acquire
    <2>7. CASE LockToRead(p)
      BY <2>7 DEF LockToRead, At, Goto, Running, Acquire
    <2>8. CASE Unblock(p)
      BY <2>8 DEF Unblock, At, Goto, Running
    <2> QED BY <1>2, <2>1, <2>2, <2>3, <2>4, <2>5, <2>6, <2>7, <2>8
  <1>3. ASSUME NEW t \in Thread, \/ Deliver(t) \/ HandlerGets(t)
                               \/ HandlerLocks(t) \/ HandlerSets(t)
        PROVE  (Joined /\ Caused /\ ExitsLast /\ StopsForCause)'
    <2>1. CASE Deliver(t)
      BY <2>1 DEF Deliver, Running
    <2>2. CASE HandlerGets(t)
      BY <2>2 DEF HandlerGets, Running
    <2>3. CASE HandlerLocks(t)
      BY <2>3 DEF HandlerLocks, Running, Acquire
    <2>4. CASE HandlerSets(t)
      BY <2>4 DEF HandlerSets, Running, Release
    <2> QED BY <1>3, <2>1, <2>2, <2>3, <2>4
  <1> QED BY <1>1, <1>2, <1>3, Steps

\* The flag is touched by the holder of the mutex, and there is one holder.
LEMMA GuardedFlag == ASSUME Guarded PROVE FlagGuarded
  BY DEF Guarded, FlagGuarded, Holding, Critical

\* main starts with no thread, no lock and no cause to stop (main.cpp:26-33).
LEMMA InitInv == ASSUME Init PROVE Inv
  <1>1. /\ pc[Main] = "start" /\ \A p \in Port : pc[p] = "off"
        /\ \A t \in Thread : hand[t] = "none"
        /\ pc \in [Thread -> {"start", "off"}] /\ hand \in [Thread -> {"none"}]
        /\ Port \subseteq Thread /\ Main \in Thread
    <2>1. Port \subseteq Thread /\ Main \in Thread /\ \A p \in Port : p # Main
      OBVIOUS
    <2>2. pc = [t \in Thread |-> IF t = Main THEN "start" ELSE "off"]
      BY Zenon DEF Init
    <2>3. hand = [t \in Thread |-> "none"]
      BY Zenon DEF Init
    <2> HIDE DEF Main, Port, Thread
    <2> QED BY <2>1, <2>2, <2>3, Zenon
  <1>2. /\ m_signal \in [Object -> {FALSE}] /\ lock \in [Object -> {NoThread}]
        /\ m_handle = Null /\ index = 1 /\ created = 0 /\ signals = 0
    BY DEF Init
  <1>3. TypeOK
    <2>1. m_signal \in [Object -> BOOLEAN] /\ lock \in [Object -> Thread \cup {NoThread}]
      BY <1>2
    <2>2. index \in 1..N + 1 /\ created \in 0..N /\ signals \in 0..MaxSignals
      BY <1>2
    <2>3. pc \in [Thread -> MainStates \cup PollerStates]
      BY <1>1 DEF MainStates, PollerStates
    <2>4. hand \in [Thread -> {"none", "get", "lock", "setting"}]
      BY <1>1
    <2>5. pc[Main] \in MainStates /\ \A p \in Port : pc[p] \in PollerStates
      BY <1>1 DEF MainStates, PollerStates
    <2> QED BY <1>2, <2>1, <2>2, <2>3, <2>4, <2>5 DEF TypeOK
  <1>4. Started /\ Guarded
    BY <1>1, <1>2 DEF Started, Guarded, Holding
  <1>5. Joined /\ ExitsLast /\ StopsForCause
    BY <1>1, <1>2 DEF Joined, ExitsLast, StopsForCause
  <1>6. Caused
    <2>1. \A o \in Object : ~m_signal[o]
      BY <1>2
    <2>2. (\A t \in Thread : hand[t] = "none") /\ \A p \in Port : pc[p] = "off"
      BY <1>1
    <2> QED
      BY <2>1, <2>2 DEF Caused
  <1> QED BY <1>3, <1>4, <1>5, <1>6, GuardedFlag DEF Inv

\* Every step of a thread, of main or of a handler keeps the invariant.
LEMMA NextInv == ASSUME Inv, [Next]_vars PROVE Inv'
  <1>1. CASE Next
    <2>1. TypeOK' /\ Started' /\ Guarded'
      BY <1>1, NextTypedGuarded DEF Inv
    <2>2. Joined' /\ Caused' /\ ExitsLast' /\ StopsForCause'
      BY <1>1, NextJoinedCaused DEF Inv
    <2>3. FlagGuarded'
      BY <2>1, GuardedFlag DEF Guarded, FlagGuarded, Holding, Critical
    <2> QED BY <2>1, <2>2, <2>3 DEF Inv
  <1>2. CASE UNCHANGED vars
    BY <1>2 DEF vars, Inv, TypeOK, Started, Guarded, Holding, Joined, Caused, Cause,
                ExitsLast, FlagGuarded, Critical, StopsForCause
  <1> QED BY <1>1, <1>2

(* Whatever the number of ports and of signals, wherever signals interrupt *)
(* and whatever fails (Faults), the inductive invariant holds: the mutex   *)
(* of the current ConfigUtil belongs to the thread between its lock and    *)
(* its unlock (ConfigUtil.cpp:152-167), and main has created and joins the *)
(* ports in order (main.cpp:53-70).                                        *)
THEOREM Invariance == Spec => []Inv
  BY InitInv, NextInv, PTL DEF Spec

(* main returns only after every poller it created has returned, unless    *)
(* new throws for the Poller of a further port (main.cpp:55, 82-86).       *)
THEOREM ExitIsLast == Spec => []ExitsLast
  <1>1. Inv => ExitsLast
    BY DEF Inv
  <1> QED BY <1>1, Invariance, PTL

(* The signal flag is touched only under the mutex of the one instance     *)
(* that every thread and handler uses.                                     *)
THEOREM FlagIsGuarded == Spec => []FlagGuarded
  <1>1. Inv => FlagGuarded
    BY DEF Inv
  <1> QED BY <1>1, Invariance, PTL

(* No poller stops without a signal or a failed poll.                      *)
THEOREM StopHasCause == Spec => []StopsForCause
  <1>1. Inv => StopsForCause
    BY DEF Inv
  <1> QED BY <1>1, Invariance, PTL

(* The threads, the handlers and the mutex have their types: main is never *)
(* where only a poller can be, nor a poller where only main can.           *)
THEOREM TypeCorrect == Spec => []TypeOK
  <1>1. Inv => TypeOK
    BY DEF Inv
  <1> QED BY <1>1, Invariance, PTL
=============================================================================
