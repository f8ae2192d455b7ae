------------------------- MODULE ShutdownProperties -------------------------
(***************************************************************************)
(* What stopping the server guarantees.                                    *)
(***************************************************************************)
EXTENDS Shutdown

(* main returns only after every thread that was created has returned,     *)
(* though the threads that could not be created are joined too             *)
(* (main.cpp:53-70): the created ones come first.  The one exception is    *)
(* the memory running out for the Poller of a further port (main.cpp:55):  *)
(* the catch of main.cpp:82-86 goes past the joins, and the process ends   *)
(* with the earlier pollers at any step of a pass.  A file that is refused *)
(* is refused before there is a thread.                                    *)
ExitsLast ==
    pc[Main] \in {"exited", "caught"} =>
        \/ \A p \in Port : pc[p] \in {"off", "stopped"}
        \/ pc[Main] = "caught" /\ "memory" \in Faults /\ created \in 1..N - 1

Critical(t) == (hand[t] = "none" /\ pc[t] \in {"setting", "reading"}) \/ hand[t] = "setting"

(* The flag is read and written under the mutex of the instance that all   *)
(* threads use, and by one thread or handler at a time, though a handler   *)
(* may have replaced the instance (ConfigUtil.cpp:30-34, 152-167).         *)
FlagGuarded ==
    \A t \in Thread : Critical(t) => /\ m_handle # Null /\ lock[m_handle] = t
                                     /\ \A u \in Thread : Critical(u) => u = t

(* A poller stops for a signal, or because a poll failed, and for nothing  *)
(* else (Poller.cpp:58-63).                                                *)
StopsForCause ==
    \A p \in Port : pc[p] = "stopped" =>
        m_handle # Null /\ m_signal[m_handle] /\ (signals > 0 \/ "poll" \in Faults)

-----------------------------------------------------------------------------
(* The inductive invariant: the three properties above, strengthened until *)
(* every step preserves it.                                                *)

Cause == signals > 0 \/ "poll" \in Faults
Holding(t) == pc[t] \in {"setting", "reading"} \/ hand[t] = "setting"

\* The created threads are the first ones, and all there are.
Started ==
    /\ \A p \in Port : pc[p] # "off" <=> p =< created
    /\ \A t \in Thread : hand[t] # "none" => pc[t] \notin {"off", "stopped"}
    /\ pc[Main] \in {"start", "parse", "new"} => created = 0 /\ index = 1
    /\ pc[Main] = "create" => created = index - 1

\* The mutex belongs to whoever is between its lock and its unlock.
Guarded ==
    /\ pc[Main] \in {"create", "join", "exited"} => m_handle # Null
    /\ \A p \in Port : pc[p] # "off" => m_handle # Null
    /\ \A t \in Thread : hand[t] \in {"lock", "setting"} => m_handle # Null
    /\ \A t \in Thread : Holding(t) => m_handle # Null /\ lock[m_handle] = t
    /\ \A t \in Thread : hand[t] = "setting" => pc[t] \notin {"setting", "reading"}

Joined ==
    pc[Main] = "join" => \A p \in Port : p < index /\ p =< created => pc[p] = "stopped"

Caused ==
    /\ \A o \in Object : m_signal[o] => Cause
    /\ \A t \in Thread : hand[t] # "none" => Cause
    /\ \A p \in Port : pc[p] \in {"failed", "setting"} => Cause

Inv == /\ TypeOK /\ Started /\ Guarded /\ Joined /\ Caused
       /\ ExitsLast /\ FlagGuarded /\ StopsForCause

-----------------------------------------------------------------------------
(* What can keep a signal from stopping the server: the thread it came to  *)
(* holds the mutex that the handler waits for (ConfigUtil.cpp:152-167), or *)
(* was about to make the singleton, which replaces the one whose flag was  *)
(* raised (ConfigUtil.cpp:30-34), or a pass of a poller never ends: in a   *)
(* send to a client that does not read (ClientSocket.cpp:46), in waitpid   *)
(* for a child that does not exit (Poller.cpp:312), or in the decoder of a *)
(* cut chunked body (Decoder.cpp:11-18).                                   *)
SelfLocked == \E t \in Thread : hand[t] = "lock" /\ lock[m_handle] = t
FlagLost == \E o \in Object : o # m_handle /\ m_signal[o]
Blocked == \E p \in Port : pc[p] = "blocked"

(* Otherwise, if one thread is signalled, every port stops and the process *)
(* ends: nobody waits for ever for a mutex that another thread holds or    *)
(* for a poll, no poller goes on without looking at the flag, and main     *)
(* joins all of them.                                                      *)
SignalEndsServer ==
    (\E t \in Thread : hand[t] # "none") ~> ~Running \/ SelfLocked \/ FlagLost \/ []Blocked

-----------------------------------------------------------------------------
(* What Signals.cpp:3-8 says: "If a signal occurs then the signal handler  *)
(* sets the m_is_signalled flag in the Config singleton instance."         *)

Raised == m_handle # Null /\ m_signal[m_handle]

(* The handler gets as far as setting the flag, wherever it interrupts.    *)
HandlerRaisesFlag == (\E t \in Thread : hand[t] # "none") ~> Raised \/ ~Running
=============================================================================
