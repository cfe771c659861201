---------------------------- MODULE DaemonProofs ----------------------------
(***************************************************************************)
(* Invariance proofs for Daemon, whether the receive call blocks or not.   *)
(***************************************************************************)
EXTENDS Daemon, TLAPS

\* Where the flag, the signals handled and the cycles begun stand: the flag is
\* down in a process that handled SIGTERM, and its loop has not come around yet.
Stopping ==
    /\ Alive => (g_running <=> "TERM" \notin seen)
    /\ Alive /\ "TERM" \notin seen => late = 0
    /\ pc \in {"recv", "waiting", "cycle"} => late = 0

\* Once the handlers are installed, a signal whose handler is gone was handled.
Handled ==
    /\ Alive /\ pc # "init" => \A s \in Signal : handler[s] \/ s \in seen
    /\ ended # "killed by the first"

\* Every step keeps the types, whatever signal comes between.
LEMMA NextType == TypeOK /\ [Next]_vars => TypeOK'
<1> SUFFICES ASSUME TypeOK, [Next]_vars PROVE TypeOK'
  OBVIOUS
<1>1. CASE Start
  <2>1. late' \in 0 .. 2
    BY <1>1 DEF Start
  <2> QED BY <1>1, <2>1 DEF Start, TypeOK
<1>2. CASE Process
  <2>1. CASE Cycle
    <3>1. late' \in 0 .. 2
      <4>1. late' = late \/ (late < 2 /\ late' = late + 1)
        BY <2>1 DEF Cycle
      <4>2. late \in 0 .. 2
        BY DEF TypeOK
      <4> QED BY <4>1, <4>2
    <3>2. /\ pc' = "test" /\ lit' \in BOOLEAN
          /\ UNCHANGED <<blocking, g_running, handler, pid_file, seen, ended>>
      BY <2>1 DEF Cycle
    <3> QED BY <3>1, <3>2 DEF TypeOK
  <2>2. CASE remove_pid_file
    BY <2>2 DEF remove_pid_file, Leftover, TypeOK
  <2>3. CASE InstallHandlers \/ write_pid_file \/ TestRunning \/ Receive
             \/ Wait \/ CloseAll
    BY <2>3 DEF InstallHandlers, write_pid_file, TestRunning, Receive, Wait,
                CloseAll, history, TypeOK
  <2> QED BY <1>2, <2>1, <2>2, <2>3 DEF Process
<1>3. CASE Arrive
  BY <1>3 DEF Arrive, history, TypeOK
<1>4. ASSUME NEW s \in Signal, Deliver(s) PROVE TypeOK'
  <2>1. handler' \in [Signal -> BOOLEAN] /\ seen' \subseteq Signal
    BY <1>4 DEF Deliver, TypeOK
  <2>2. g_running' \in BOOLEAN
    BY <1>4 DEF Deliver, signal_handler, TypeOK
  <2> QED BY <1>4, <2>1, <2>2 DEF Deliver, TypeOK
<1>5. ASSUME NEW s \in Signal, Kill(s) PROVE TypeOK'
  BY <1>5 DEF Kill, Die, Leftover, TypeOK
<1>6. CASE Crash
  BY <1>6 DEF Crash, Die, Leftover, TypeOK
<1>7. CASE UNCHANGED vars
  BY <1>7 DEF vars, history, TypeOK
<1> QED BY <1>1, <1>2, <1>3, <1>4, <1>5, <1>6, <1>7 DEF Next

\* The daemon's state is well-typed in every reachable state.
THEOREM TypeCorrect == Spec => []TypeOK
<1>1. Init => TypeOK
  <2>1. Init => late = 0
    BY DEF Init
  <2>2. 0 \in 0 .. 2
    OBVIOUS
  <2> QED BY <2>1, <2>2 DEF Init, TypeOK
<1> QED BY <1>1, NextType, PTL DEF Spec

\* Every step preserves Stopping and OneCycleMore: a process whose flag is down
\* leaves the loop at the next test.
LEMMA NextStops ==
    TypeOK /\ Stopping /\ OneCycleMore /\ [Next]_vars
        => Stopping' /\ OneCycleMore'
<1> SUFFICES ASSUME TypeOK, Stopping, OneCycleMore, [Next]_vars
             PROVE  Stopping' /\ OneCycleMore'
  OBVIOUS
<1> USE DEF Stopping, OneCycleMore, Alive
<1>1. CASE Start
  <2>1. /\ pc' = "init" /\ late' = 0
        /\ g_running' = TRUE /\ "TERM" \notin seen'
    BY <1>1 DEF Start
  <2>2. g_running' <=> "TERM" \notin seen'
    BY <2>1
  <2> QED BY <2>1, <2>2
<1>2. CASE Process
  <2>1. CASE TestRunning
    BY <2>1 DEF TestRunning, history
  <2>2. CASE Cycle
    <3>1. late = 0 /\ pc' = "test" /\ UNCHANGED <<g_running, seen>>
      BY <2>2 DEF Cycle
    <3>2. late' = (IF "TERM" \in seen THEN 1 ELSE 0)
      BY <2>2, <3>1 DEF Cycle
    <3> QED BY <2>2, <3>1, <3>2 DEF Cycle
  <2>3. CASE InstallHandlers \/ write_pid_file \/ Receive \/ Wait \/ CloseAll
             \/ remove_pid_file
    <3>1. /\ UNCHANGED <<g_running, seen, late>> /\ Alive
          /\ pc' \in {"recv", "waiting", "cycle"} =>
                pc \in {"recv", "waiting", "cycle"}
      BY <2>3 DEF InstallHandlers, write_pid_file, Receive, Wait, CloseAll,
                  remove_pid_file, history
    <3> QED BY <3>1
  <2> QED BY <1>2, <2>1, <2>2, <2>3 DEF Process
<1>3. CASE Arrive
  BY <1>3 DEF Arrive, history
<1>4. ASSUME NEW s \in Signal, Deliver(s) PROVE Stopping' /\ OneCycleMore'
  <2>1. g_running' = (g_running /\ s # "TERM") /\ seen' = seen \cup {s}
        /\ UNCHANGED late /\ Alive
        /\ pc' = IF pc = "waiting" THEN "cycle" ELSE pc
    BY <1>4 DEF Deliver, signal_handler
  <2>2. Alive' /\ (g_running' <=> "TERM" \notin seen')
    BY <2>1 DEF TypeOK
  <2> QED BY <2>1, <2>2
<1>5. ASSUME NEW s \in Signal, Kill(s) PROVE Stopping' /\ OneCycleMore'
  BY <1>5 DEF Kill, Die
<1>6. CASE Crash
  BY <1>6 DEF Crash, Die
<1>7. CASE UNCHANGED vars
  BY <1>7 DEF vars, history
<1> QED BY <1>1, <1>2, <1>3, <1>4, <1>5, <1>6, <1>7 DEF Next

\* A daemon whose handler has seen SIGTERM begins at most one more cycle of its
\* loop, wherever the signal interrupted it and whatever other signals came.
THEOREM LoopStopsAtOnce == Spec => []OneCycleMore
<1>1. Init => Stopping /\ OneCycleMore
  <2>1. Init => late = 0 /\ ~Alive /\ pc = "none"
    BY DEF Init, Alive
  <2> QED BY <2>1 DEF Stopping, OneCycleMore
<1> QED BY <1>1, TypeCorrect, NextStops, PTL DEF Spec

\* Every step preserves Handled and StaleFileExplained: a signal kills only
\* before its handler is installed or after the handler ran.
LEMMA NextExplained ==
    TypeOK /\ Handled /\ StaleFileExplained /\ [Next]_vars
        => Handled' /\ StaleFileExplained'
<1> SUFFICES ASSUME TypeOK, Handled, StaleFileExplained, [Next]_vars
             PROVE  Handled' /\ StaleFileExplained'
  OBVIOUS
<1> USE DEF Handled, StaleFileExplained, Alive
<1>1. CASE Start
  BY <1>1 DEF Start
<1>2. CASE Process
  <2>1. CASE InstallHandlers
    BY <2>1 DEF InstallHandlers, history
  <2>2. CASE remove_pid_file
    BY <2>2 DEF remove_pid_file
  <2>3. CASE write_pid_file \/ TestRunning \/ Receive \/ Wait \/ CloseAll
    BY <2>3 DEF write_pid_file, TestRunning, Receive, Wait, CloseAll, history
  <2>4. CASE Cycle
    BY <2>4 DEF Cycle
  <2> QED BY <1>2, <2>1, <2>2, <2>3, <2>4 DEF Process
<1>3. CASE Arrive
  BY <1>3 DEF Arrive, history
<1>4. ASSUME NEW s \in Signal, Deliver(s)
      PROVE  Handled' /\ StaleFileExplained'
  <2>1. /\ handler' = [handler EXCEPT ![s] = FALSE] /\ seen' = seen \cup {s}
        /\ UNCHANGED <<ended, pid_file>> /\ Alive
        /\ pc' = IF pc = "waiting" THEN "cycle" ELSE pc
    BY <1>4 DEF Deliver
  <2> QED BY <2>1 DEF TypeOK
<1>5. ASSUME NEW s \in Signal, Kill(s) PROVE Handled' /\ StaleFileExplained'
  <2>1. pc = "init" \/ s \in seen
    BY <1>5 DEF Kill, Die
  <2> QED BY <1>5, <2>1 DEF Kill, Die
<1>6. CASE Crash
  BY <1>6 DEF Crash, Die
<1>7. CASE UNCHANGED vars
  BY <1>7 DEF vars, history
<1> QED BY <1>1, <1>2, <1>3, <1>4, <1>5, <1>6, <1>7 DEF Next

\* A PID file that names a dead process is the trace of a crash, of a signal
\* before the handlers or of a second one of its kind, or of a failed unlink().
THEOREM StaleFilesAreExplained == Spec => []StaleFileExplained
<1>1. Init => Handled /\ StaleFileExplained
  BY DEF Init, Handled, StaleFileExplained, Alive
<1> QED BY <1>1, TypeCorrect, NextExplained, PTL DEF Spec
=============================================================================
