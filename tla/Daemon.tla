------------------------------- MODULE Daemon -------------------------------
(***************************************************************************)
(* The life of a daemon process (main.c): it installs its signal handlers, *)
(* writes the PID file, runs the event loop while g_running is set, closes *)
(* everything and removes the PID file.  The boot script's watchdog starts *)
(* another one when there is none (SAFETY.md).                             *)
(*                                                                         *)
(*   "none" -> "init" -> "pid" -> "test" -> "recv" [-> "waiting"]          *)
(*      ^                         |    ^                    |              *)
(*      +-- "unlink" <- "close" <-+    +----- "cycle" <-----+              *)
(*                                                                         *)
(* Signals arrive between any two of these steps.  signal() is the bare    *)
(* system call (oabi/syscalls.S), whose handlers run once: delivery puts   *)
(* the default action, death, back in place, and it interrupts a receive   *)
(* call that waits.                                                        *)
(***************************************************************************)
EXTENDS Naturals

VARIABLES
    blocking,    \* whether the receive call of the configured protocol blocks
                 \* (Art-Net, ShowNet) or not (sACN, none)
    pc,          \* where the process stands; "none": there is no process
    g_running,   \* the flag the loop tests
    handler,     \* per signal: whether signal_handler is installed
    pid_file,    \* "absent", "empty", "current" (names the process), "stale"
    lit,         \* whether the DMX lines carry light
    seen,        \* history: the signals this process has handled
    late,        \* history: the cycles it has begun since SIGTERM, 2 for more
    ended        \* history: how the last process ended

history == <<seen, late, ended>>
vars == <<blocking, pc, g_running, handler, pid_file, lit, history>>

Signal == {"TERM", "INT"}
Alive == pc # "none"

Init ==
    /\ blocking \in BOOLEAN
    /\ pc = "none"
    /\ g_running = TRUE
    /\ handler = [s \in Signal |-> FALSE]
    /\ pid_file = "absent"
    /\ lit = FALSE
    /\ seen = {}
    /\ late = 0
    /\ ended = "never started"

(***************************************************************************)
(* The process.                                                            *)
(***************************************************************************)

\* The watchdog starts the daemon: g_running is initialised to 1.
Start ==
    /\ pc = "none"
    /\ pc' = "init"
    /\ g_running' = TRUE
    /\ seen' = {}
    /\ late' = 0
    /\ UNCHANGED <<blocking, handler, pid_file, lit, ended>>

\* Mutant of InstallHandlers: the line for SIGINT is missing.
InstallTermOnly ==
    /\ pc = "init"
    /\ pc' = "pid"
    /\ handler' = [s \in Signal |-> s = "TERM"]
    /\ UNCHANGED <<blocking, g_running, pid_file, lit, history>>

\* signal_handler is installed for SIGTERM and SIGINT.
InstallHandlers ==
    /\ pc = "init"
    /\ pc' = "pid"
    /\ handler' = [s \in Signal |-> TRUE]
    /\ UNCHANGED <<blocking, g_running, pid_file, lit, history>>

\* A failed open() leaves the old file, a failed write() an empty one, and the
\* daemon goes on.  The sockets and ports are opened next.
write_pid_file ==
    /\ pc = "pid"
    /\ pc' = "test"
    /\ pid_file' \in {"current", "empty", pid_file}
    /\ UNCHANGED <<blocking, g_running, handler, lit, seen, late, ended>>

\* Mutant of TestRunning: the loop never looks at the flag.
TestRunningForever ==
    /\ pc = "test"
    /\ pc' = "recv"
    /\ UNCHANGED <<blocking, g_running, handler, pid_file, lit, history>>

\* while (g_running).
TestRunning ==
    /\ pc = "test"
    /\ pc' = IF g_running THEN "recv" ELSE "close"
    /\ UNCHANGED <<blocking, g_running, handler, pid_file, lit, history>>

\* The receive call returns: with a datagram, or because there is none and the
\* socket does not block.
Receive ==
    /\ pc = "recv"
    /\ pc' = "cycle"
    /\ UNCHANGED <<blocking, g_running, handler, pid_file, lit, history>>

\* The receive call finds no datagram and waits.
Wait ==
    /\ blocking
    /\ pc = "recv"
    /\ pc' = "waiting"
    /\ UNCHANGED <<blocking, g_running, handler, pid_file, lit, history>>

\* A datagram arrives and wakes the process.
Arrive ==
    /\ pc = "waiting"
    /\ pc' = "cycle"
    /\ UNCHANGED <<blocking, g_running, handler, pid_file, lit, history>>

\* usleep() and the two DMX cycles; the output cycle leaves any look behind
\* (module DmxOutput says which).
Cycle ==
    /\ pc = "cycle"
    /\ pc' = "test"
    /\ lit' \in BOOLEAN
    /\ late' = IF "TERM" \in seen /\ late < 2 THEN late + 1 ELSE late
    /\ UNCHANGED <<blocking, g_running, handler, pid_file, seen, ended>>

\* Shutdown closes the sockets and the DMX devices; it writes no frame.
CloseAll ==
    /\ pc = "close"
    /\ pc' = "unlink"
    /\ UNCHANGED <<blocking, g_running, handler, pid_file, lit, history>>

\* What a dead process leaves of its PID file.
Leftover == IF pid_file = "current" THEN "stale" ELSE pid_file

\* remove_pid_file() and the return from main().  A failing unlink() goes
\* unnoticed.
remove_pid_file ==
    /\ pc = "unlink"
    /\ pc' = "none"
    /\ \/ pid_file' = "absent" /\ ended' = "returned"
       \/ pid_file' = Leftover /\ ended' = "unlink failed"
    /\ handler' = [s \in Signal |-> FALSE]
    /\ UNCHANGED <<blocking, g_running, lit, seen, late>>

(***************************************************************************)
(* Signals and death.                                                      *)
(***************************************************************************)

\* The process disappears: the default action of a signal, or a crash.
Die(how) ==
    /\ Alive
    /\ pc' = "none"
    /\ handler' = [s \in Signal |-> FALSE]
    /\ pid_file' = Leftover
    /\ ended' = how
    /\ UNCHANGED <<blocking, g_running, lit, seen, late>>

\* Mutant of signal_handler: it tests for the other signal's number.
signal_handler_swapped(s) == g_running' = (g_running /\ s # "INT")

\* Only SIGTERM clears the flag.
signal_handler(s) == g_running' = (g_running /\ s # "TERM")

\* Delivery of a signal whose handler is installed.  A waiting receive call
\* returns with EINTR, which the loop treats as "no packet".
Deliver(s) ==
    /\ Alive
    /\ handler[s]
    /\ signal_handler(s)
    /\ handler' = [handler EXCEPT ![s] = FALSE]
    /\ seen' = seen \cup {s}
    /\ pc' = IF pc = "waiting" THEN "cycle" ELSE pc
    /\ UNCHANGED <<blocking, pid_file, lit, late, ended>>

\* Delivery of a signal with its default action: before the handlers are
\* installed, or for the second time.
Kill(s) ==
    /\ ~handler[s]
    /\ Die(IF pc = "init" THEN "killed at start"
           ELSE IF s \in seen THEN "killed by the second"
           ELSE "killed by the first")

Crash == Die("crashed")

Process ==
    \/ InstallHandlers
    \/ write_pid_file
    \/ TestRunning
    \/ Receive
    \/ Wait
    \/ Cycle
    \/ CloseAll
    \/ remove_pid_file

Next ==
    \/ Start
    \/ Process
    \/ Arrive
    \/ \E s \in Signal : Deliver(s) \/ Kill(s)
    \/ Crash

Spec == Init /\ [][Next]_vars

\* The process runs whenever it can; nothing obliges the network to send.
FairSpec == Spec /\ WF_vars(Process) /\ WF_vars(Start)

(***************************************************************************)
(* Properties.                                                             *)
(***************************************************************************)

\* Every variable keeps its type.
TypeOK ==
    /\ blocking \in BOOLEAN
    /\ pc \in {"none", "init", "pid", "test", "recv", "waiting", "cycle",
               "close", "unlink"}
    /\ g_running \in BOOLEAN
    /\ handler \in [Signal -> BOOLEAN]
    /\ pid_file \in {"absent", "empty", "current", "stale"}
    /\ lit \in BOOLEAN
    /\ seen \subseteq Signal
    /\ late \in 0 .. 2
    /\ ended \in {"never started", "returned", "unlink failed", "crashed",
                  "killed at start", "killed by the first",
                  "killed by the second"}

\* SIGTERM stops the loop at once: wherever it interrupts the loop, and whatever
\* other signals come, the daemon begins at most one more DMX cycle (the one of
\* the iteration it is in) before it shuts down.
OneCycleMore == late <= 1

\* A PID file that names a process that is gone is explained by what happened
\* to the last process: it crashed, a signal caught it before its handlers were
\* installed, a second signal of a kind killed it (the handlers run once), or
\* unlink() failed.  One signal of each kind never leaves one.
StaleFileExplained ==
    pid_file = "stale" /\ ~Alive =>
        ended \in {"crashed", "killed at start", "killed by the second",
                   "unlink failed"}

\* SIGTERM ends a daemon whose receive call does not block: once signal_handler
\* has run, the process is gone after finitely many steps of its own.  A receive
\* call that blocks may begin to wait after the signal came.
TermEnds == "TERM" \in seen /\ ~blocking ~> ~Alive

\* "SIGTERM triggers a clean shutdown (DMX ports set to zero, PID file
\* removed)" (SAFETY.md:179).
CleanShutdown == ended = "returned" /\ ~Alive => ~lit /\ pid_file = "absent"
=============================================================================
