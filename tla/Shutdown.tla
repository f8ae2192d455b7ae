------------------------------ MODULE Shutdown ------------------------------
(***************************************************************************)
(* The life of the process: main.cpp starts one poller thread for each     *)
(* port and joins them, a signal handler (Signals.cpp) raises a flag in    *)
(* the ConfigUtil singleton, and the pollers look at it after each poll.   *)
(*                                                                         *)
(* The handler runs on whichever thread the signal is delivered to, in     *)
(* between two of that thread's steps.  The flag is guarded by a mutex     *)
(* that its own holder cannot take again.                                  *)
(***************************************************************************)
EXTENDS Naturals

CONSTANTS
    N,              \* the number of ports
    MaxSignals,     \* bound: signals that are delivered
    Faults          \* what else may go wrong, see AllFaults

\* pthread_create, bind or poll fails, new throws, the file is refused, and in a
\* pass of a poller: it throws, or waits for something that need not come.
AllFaults == {"create", "bind", "poll", "memory", "file", "throw", "block"}

ASSUME NAssumption == N \in Nat \ {0}
ASSUME MaxSignalsAssumption == MaxSignals \in Nat
ASSUME FaultAssumption == Faults \subseteq AllFaults

Main == 0
Port == 1..N
Thread == 0..N
NoThread == N + 1
Null == 0
Object == {1, 2}    \* the instances of ConfigUtil: main's and the handler's

VARIABLES
    pc,         \* where each thread is
    hand,       \* where the signal handler is that runs on it
    index,      \* main's idx, the port it creates or joins
    created,    \* the ports whose threads pthread_create has started
    m_handle,   \* the singleton
    m_signal,   \* the flag of each instance
    lock,       \* m_signal_lock of each instance: the thread that holds it
    signals     \* how many signals have been delivered

vars == <<pc, hand, index, created, m_handle, m_signal, lock, signals>>

\* main returns after the joins ("exited") or through a catch ("caught").
MainStates == {"start", "parse", "new", "create", "join", "exited", "caught", "dead"}
PollerStates == {"off", "init", "poll", "failed", "setting", "returned", "reading",
                 "scan", "blocked", "stopped"}

TypeOK ==
    /\ pc \in [Thread -> MainStates \cup PollerStates]
    /\ pc[Main] \in MainStates
    /\ \A p \in Port : pc[p] \in PollerStates
    /\ hand \in [Thread -> {"none", "get", "lock", "setting"}]
    /\ index \in 1..N + 1
    /\ created \in 0..N
    /\ m_handle \in Object \cup {Null}
    /\ m_signal \in [Object -> BOOLEAN]
    /\ lock \in [Object -> Thread \cup {NoThread}]
    /\ signals \in 0..MaxSignals

Init ==
    /\ pc = [t \in Thread |-> IF t = Main THEN "start" ELSE "off"]
    /\ hand = [t \in Thread |-> "none"]
    /\ index = 1
    /\ created = 0
    /\ m_handle = Null
    /\ m_signal = [o \in Object |-> FALSE]
    /\ lock = [o \in Object |-> NoThread]
    /\ signals = 0

-----------------------------------------------------------------------------
Running == pc[Main] \notin {"exited", "caught", "dead"}

\* The process runs, t is at s, and no handler runs on it.
At(t, s) == Running /\ pc[t] = s /\ hand[t] = "none"
Goto(t, s) == pc' = [pc EXCEPT ![t] = s]
Die == Goto(Main, "dead")

Acquire(t) == lock[m_handle] = NoThread /\ lock' = [lock EXCEPT ![m_handle] = t]
Release == lock' = [lock EXCEPT ![m_handle] = NoThread]

-----------------------------------------------------------------------------
(* main.                                                                   *)

RegisterSignals ==
    /\ At(Main, "start") /\ Goto(Main, "parse")
    /\ UNCHANGED <<hand, index, created, m_handle, m_signal, lock, signals>>

(* loadFile and mapTokens: the first server block calls getHandle, which   *)
(* makes the instance in two steps if there is none.                       *)
GetHandle ==
    /\ At(Main, "parse")
    /\ Goto(Main, IF m_handle = Null THEN "new" ELSE "create")
    /\ UNCHANGED <<hand, index, created, m_handle, m_signal, lock, signals>>

NewHandle ==
    /\ At(Main, "new") /\ Goto(Main, "create")
    /\ m_handle' = 1
    /\ UNCHANGED <<hand, index, created, m_signal, lock, signals>>

\* The loop over the ports ends at the first thread that cannot be created.
CreateThread ==
    /\ At(Main, "create") /\ index =< N
    /\ created' = index
    /\ index' = index + 1
    /\ Goto(index, "init")
    /\ UNCHANGED <<hand, m_handle, m_signal, lock, signals>>

EndCreation ==
    /\ At(Main, "create")
    /\ index > N \/ "create" \in Faults
    /\ index' = 1
    /\ Goto(Main, "join")
    /\ UNCHANGED <<hand, created, m_handle, m_signal, lock, signals>>

(* The file is refused, at any place of it, or new throws: for the parser, *)
(* the instance, the array of ids, or the next port's Poller.  main frees  *)
(* the array and returns; threads that run already are not joined.         *)
Caught ==
    /\ \/ At(Main, "parse") /\ {"file", "memory"} \cap Faults # {}
       \/ At(Main, "new") /\ "memory" \in Faults
       \/ At(Main, "create") /\ index = 1 /\ "file" \in Faults
       \/ At(Main, "create") /\ index =< N /\ "memory" \in Faults
    /\ Goto(Main, "caught")
    /\ UNCHANGED <<hand, index, created, m_handle, m_signal, lock, signals>>

(* A mutant of Join: threads are not waited for.                           *)
JoinUnwaited ==
    /\ At(Main, "join") /\ index =< created
    /\ index' = index + 1
    /\ UNCHANGED <<pc, hand, created, m_handle, m_signal, lock, signals>>

Join ==
    /\ At(Main, "join") /\ index =< created /\ pc[index] = "stopped"
    /\ index' = index + 1
    /\ UNCHANGED <<pc, hand, created, m_handle, m_signal, lock, signals>>

\* The ids of threads that were not created are joined too, uninitialised.
JoinNothing ==
    /\ At(Main, "join") /\ index \in created + 1..N
    /\ Goto(Main, "exited") \/ Die
    /\ UNCHANGED <<hand, index, created, m_handle, m_signal, lock, signals>>

Exit ==
    /\ At(Main, "join") /\ index > N
    /\ Goto(Main, "exited")
    /\ UNCHANGED <<hand, index, created, m_handle, m_signal, lock, signals>>

-----------------------------------------------------------------------------
(* pollPort.                                                               *)

\* initSocket throws if the port cannot be bound, and nobody catches it.
InitPoller(p) ==
    /\ At(p, "init")
    /\ Goto(p, "poll") \/ ("bind" \in Faults /\ Die)
    /\ UNCHANGED <<hand, index, created, m_handle, m_signal, lock, signals>>

\* poll returns in any case when its time is over.
Poll(p) ==
    /\ At(p, "poll")
    /\ Goto(p, "returned") \/ ("poll" \in Faults /\ Goto(p, "failed"))
    /\ UNCHANGED <<hand, index, created, m_handle, m_signal, lock, signals>>

LockToSet(p) ==
    /\ At(p, "failed") /\ Acquire(p) /\ Goto(p, "setting")
    /\ UNCHANGED <<hand, index, created, m_handle, m_signal, signals>>

SetSignalled(p) ==
    /\ At(p, "setting") /\ Release /\ Goto(p, "returned")
    /\ m_signal' = [m_signal EXCEPT ![m_handle] = TRUE]
    /\ UNCHANGED <<hand, index, created, m_handle, signals>>

(* A mutant of LockToRead: the flag is read without the mutex.             *)
ReadUnlocked(p) ==
    /\ At(p, "returned") /\ Goto(p, "reading")
    /\ UNCHANGED <<hand, index, created, m_handle, m_signal, lock, signals>>

LockToRead(p) ==
    /\ At(p, "returned") /\ Acquire(p) /\ Goto(p, "reading")
    /\ UNCHANGED <<hand, index, created, m_handle, m_signal, signals>>

(* A mutant of IsSignalled: the flag is compared the wrong way round.      *)
IsNotSignalled(p) ==
    /\ At(p, "reading") /\ Release
    /\ Goto(p, IF m_signal[m_handle] THEN "scan" ELSE "stopped")
    /\ UNCHANGED <<hand, index, created, m_handle, m_signal, signals>>

IsSignalled(p) ==
    /\ At(p, "reading") /\ Release
    /\ Goto(p, IF m_signal[m_handle] THEN "stopped" ELSE "scan")
    /\ UNCHANGED <<hand, index, created, m_handle, m_signal, signals>>

(* The pass over the ready descriptors, see Poller.  It may throw, which   *)
(* nobody catches.  It may also come to a send to a client that does not   *)
(* read, to waitpid for a child that does not exit, or to a chunked body   *)
(* that was cut, whose decoder never returns (see Request).                *)
Pass(p) ==
    /\ At(p, "scan")
    /\ \/ Goto(p, "poll")
       \/ "throw" \in Faults /\ Die
       \/ "block" \in Faults /\ Goto(p, "blocked")
    /\ UNCHANGED <<hand, index, created, m_handle, m_signal, lock, signals>>

\* The client reads or the child exits after all.
Unblock(p) ==
    /\ At(p, "blocked") /\ Goto(p, "poll")
    /\ UNCHANGED <<hand, index, created, m_handle, m_signal, lock, signals>>

-----------------------------------------------------------------------------
(* The signal handler on thread t.                                         *)

\* At any step of any thread.  A poll that is interrupted fails.
Deliver(t) ==
    /\ Running /\ signals < MaxSignals /\ hand[t] = "none"
    /\ pc[t] \notin {"start", "off", "stopped"}
    /\ signals' = signals + 1
    /\ hand' = [hand EXCEPT ![t] = "get"]
    /\ pc' = [pc EXCEPT ![t] = IF @ = "poll" THEN "failed" ELSE @]
    /\ UNCHANGED <<index, created, m_handle, m_signal, lock>>

HandlerGets(t) ==
    /\ Running /\ hand[t] = "get"
    /\ hand' = [hand EXCEPT ![t] = "lock"]
    /\ m_handle' = IF m_handle = Null THEN 2 ELSE m_handle
    /\ UNCHANGED <<pc, index, created, m_signal, lock, signals>>

HandlerLocks(t) ==
    /\ Running /\ hand[t] = "lock" /\ Acquire(t)
    /\ hand' = [hand EXCEPT ![t] = "setting"]
    /\ UNCHANGED <<pc, index, created, m_handle, m_signal, signals>>

(* A mutant of HandlerSets: the mutex is not released.                     *)
HandlerSetsOnly(t) ==
    /\ Running /\ hand[t] = "setting"
    /\ hand' = [hand EXCEPT ![t] = "none"]
    /\ m_signal' = [m_signal EXCEPT ![m_handle] = TRUE]
    /\ UNCHANGED <<pc, index, created, m_handle, lock, signals>>

HandlerSets(t) ==
    /\ Running /\ hand[t] = "setting" /\ Release
    /\ hand' = [hand EXCEPT ![t] = "none"]
    /\ m_signal' = [m_signal EXCEPT ![m_handle] = TRUE]
    /\ UNCHANGED <<pc, index, created, m_handle, signals>>

-----------------------------------------------------------------------------
MainStep == \/ RegisterSignals \/ GetHandle \/ NewHandle
            \/ Caught \/ CreateThread \/ EndCreation \/ Join \/ JoinNothing \/ Exit

\* The steps of a thread that wait for the mutex, and the others.
Locking(t) == HandlerLocks(t) \/ (t \in Port /\ (LockToSet(t) \/ LockToRead(t)))

Going(t) ==
    \/ HandlerGets(t) \/ HandlerSets(t)
    \/ t \in Port /\ (InitPoller(t) \/ Poll(t) \/ SetSignalled(t) \/ IsSignalled(t) \/ Pass(t))
    \/ t = Main /\ MainStep

Next == \/ \E t \in Thread : Deliver(t) \/ Locking(t) \/ Going(t)
        \/ \E p \in Port : Unblock(p)

Spec == Init /\ [][Next]_vars

(* Threads are scheduled, poll has a timeout, and the system gives a mutex *)
(* that is released again and again to everyone who waits for it.  Nothing *)
(* makes a client read, a child exit or a cut body end: no fairness of     *)
(* Unblock.                                                                *)
FairSpec == Spec /\ \A t \in Thread : WF_vars(Going(t)) /\ SF_vars(Locking(t))
=============================================================================
