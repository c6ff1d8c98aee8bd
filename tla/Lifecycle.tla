----------------------------- MODULE Lifecycle -----------------------------
(***************************************************************************)
(* The life of the process: main with setup_ecat, the threads it starts,   *)
(* the shutdown hook, and who owns the EthercatNode.                       *)
(*                                                                         *)
(* rclcpp is external.  A signal invalidates its context; a thread of its  *)
(* own then calls the registered hook and holds a lock meanwhile, on which *)
(* rclcpp::shutdown waits.  spin returns at some time after the context    *)
(* has become invalid.  The process is gone when main has returned or when *)
(* it is aborted: by an exception, by a null pointer, or by std::terminate *)
(* when a thread object is destroyed that was neither joined nor detached. *)
(***************************************************************************)
EXTENDS Naturals

CONSTANT MaxReconnects    \* bound: slaves that are configured anew

ASSUME LifecycleAssumption == MaxReconnects \in Nat

VARIABLES
    env,         \* what this run of the process meets, see Environments
    main,        \* where main is
    hook,        \* where the thread that runs on_shutdown is
    data,        \* where the data thread is; "none" and "joined" are not joinable
    checker,     \* where the checker thread is; the same
    context,     \* rclcpp::ok()
    registered,  \* the hook is registered
    owned,       \* the static shared pointer holds the node
    held,        \* the hook holds it too, for the time of its call
    running, exiting, exiting_reset_called, in_operational,
    bus,         \* the EtherCAT socket is open
    resets,      \* history: exit resets done
    sent,        \* history: frames of the data thread carry what the reset wrote
    reconnects   \* how many slaves were configured anew (bounded)

flags == <<running, exiting, exiting_reset_called, in_operational>>
ownership == <<owned, held>>
history == <<resets, sent, reconnects>>
vars == <<env, main, hook, data, checker, context, registered, ownership, flags, bus, history>>

\* operational: every slave reaches OP within the 50 tries of setup_ecat;
\* early: a signal may come before spin;
\* hookFirst: spin does not return before the hook holds the node.
Environments == [operational : BOOLEAN, early : BOOLEAN, hookFirst : BOOLEAN]

Gone == main \in {"exited", "aborted"}
NotJoinable == {"none", "joined"}

Init ==
    /\ env \in Environments
    /\ main = "setup" /\ hook = "none" /\ data = "none" /\ checker = "none"
    /\ context = TRUE /\ registered = FALSE
    /\ owned = TRUE /\ held = FALSE
    /\ running = TRUE /\ exiting = FALSE /\ exiting_reset_called = FALSE /\ in_operational = FALSE
    /\ bus = TRUE
    /\ resets = 0 /\ sent = FALSE /\ reconnects = 0

-----------------------------------------------------------------------------
(* main.                                                                    *)

\* setup_ecat finds no interface, no slave, or a task list it rejects ...
SetupFails ==
    /\ main = "setup"
    /\ main' = "destroy"
    /\ UNCHANGED <<hook, data, checker, context, registered, ownership, flags, bus, history>>

\* ... or lets an exception pass: a key is missing, or the context is not valid any more.
SetupThrows ==
    /\ main = "setup"
    /\ main' = "aborted"
    /\ UNCHANGED <<hook, data, checker, context, registered, ownership, flags, bus, history>>

\* All slaves are in OP: the data thread is started, then the checker.
SetupSucceeds ==
    /\ main = "setup"
    /\ data' = "start"
    /\ main' = "start_checker"
    /\ UNCHANGED <<hook, checker, context, registered, ownership, flags, bus, history>>

StartChecker ==
    /\ main = "start_checker"
    /\ checker' = "idle"
    /\ main' = "register"
    /\ UNCHANGED <<hook, data, context, registered, ownership, flags, bus, history>>

\* Some slave does not reach OP: no thread is started, but setup_ecat returns true.
SetupIncomplete ==
    /\ main = "setup" /\ ~env.operational
    /\ main' = "register"
    /\ UNCHANGED <<hook, data, checker, context, registered, ownership, flags, bus, history>>

RegisterHook ==
    /\ main = "register"
    /\ registered' = TRUE
    /\ main' = "spin"
    /\ UNCHANGED <<hook, data, checker, context, ownership, flags, bus, history>>

SpinReturns ==
    /\ main = "spin" /\ ~context
    /\ env.hookFirst => hook \notin {"called", "get_node"}
    /\ main' = "destroy"
    /\ UNCHANGED <<hook, data, checker, context, registered, ownership, flags, bus, history>>

\* What becomes of the process when the last owner lets go of the node: ~EthercatNode
\* clears running_, and then the thread objects are destroyed.
Survives == data \in NotJoinable /\ checker \in NotJoinable

DestroyNode ==
    /\ main = "destroy"
    /\ owned' = FALSE
    /\ main' = IF held \/ Survives THEN "shutdown" ELSE "aborted"
    /\ running' = (running /\ held)
    /\ UNCHANGED <<hook, data, checker, context, registered, held, exiting, exiting_reset_called,
                   in_operational, bus, history>>

\* rclcpp::shutdown waits for a hook that is being called; if the context is still valid
\* the set-up has failed and there is no hook to call.
Return ==
    /\ main = "shutdown" /\ hook \in {"none", "over"}
    /\ context \/ hook = "over"
    /\ context' = FALSE
    /\ main' = "exited"
    /\ UNCHANGED <<hook, data, checker, registered, ownership, flags, bus, history>>

Main ==
    \/ SetupFails \/ SetupThrows \/ SetupSucceeds \/ SetupIncomplete
    \/ StartChecker \/ RegisterHook \/ SpinReturns \/ DestroyNode \/ Return

-----------------------------------------------------------------------------
(* The signal and the hook.                                                 *)

Signal ==
    /\ context /\ (env.early \/ main = "spin")
    /\ context' = FALSE
    /\ hook' = "called"
    /\ UNCHANGED <<main, data, checker, registered, ownership, flags, bus, history>>

CallHook ==
    /\ hook = "called"
    /\ hook' = IF registered THEN "get_node" ELSE "over"
    /\ UNCHANGED <<main, data, checker, context, registered, ownership, flags, bus, history>>

\* get_node()->on_shutdown(): the temporary keeps the node alive, if there is one.
GetNode ==
    /\ hook = "get_node"
    /\ IF owned THEN hook' = "request" /\ held' = TRUE /\ UNCHANGED main
                ELSE main' = "aborted" /\ UNCHANGED <<hook, held>>
    /\ UNCHANGED <<data, checker, context, registered, owned, flags, bus, history>>

RequestReset ==
    /\ hook = "request"
    /\ exiting' = TRUE
    /\ hook' = "wait"
    /\ UNCHANGED <<main, data, checker, context, registered, ownership, running,
                   exiting_reset_called, in_operational, bus, history>>

ResetAwaited_Not == TRUE         \* mutant: on_shutdown does not wait
ResetAwaited == exiting_reset_called

\* The reset has been called: stop both threads ...
StopThreads ==
    /\ hook = "wait" /\ ResetAwaited
    /\ running' = FALSE
    /\ hook' = "join_data"
    /\ UNCHANGED <<main, data, checker, context, registered, ownership, exiting,
                   exiting_reset_called, in_operational, bus, history>>

\* ... and join those that were started, one after the other.
Joins_Detaches(thread) == TRUE   \* mutant: does not wait for the end of the thread
Joins(thread) == thread \in {"none", "ended"}

Joined(thread) == IF thread = "ended" THEN "joined" ELSE thread

JoinData ==
    /\ hook = "join_data" /\ Joins(data)
    /\ data' = Joined(data)
    /\ hook' = "join_checker"
    /\ UNCHANGED <<main, checker, context, registered, ownership, flags, bus, history>>

JoinChecker ==
    /\ hook = "join_checker" /\ Joins(checker)
    /\ checker' = Joined(checker)
    /\ hook' = "close"
    /\ UNCHANGED <<main, data, context, registered, ownership, flags, bus, history>>

\* INIT is requested for all slaves and the socket is closed.
CloseBus ==
    /\ hook = "close"
    /\ bus' = FALSE
    /\ hook' = "release"
    /\ UNCHANGED <<main, data, checker, context, registered, ownership, flags, history>>

\* The temporary goes away, and the node with it if main does not own it any more.
ReleaseNode ==
    /\ hook = "release"
    /\ held' = FALSE
    /\ hook' = "over"
    /\ main' = IF owned \/ Survives THEN main ELSE "aborted"
    /\ UNCHANGED <<data, checker, context, registered, owned, flags, bus, history>>

Hook ==
    \/ CallHook \/ GetNode \/ RequestReset \/ StopThreads
    \/ JoinData \/ JoinChecker \/ CloseBus \/ ReleaseNode

-----------------------------------------------------------------------------
(* The data thread.  PdoCycle has its loop in detail: here a cycle is the   *)
(* visits that need the mutexes of the slaves, the exit reset, and the      *)
(* assembly and sending of the frame.                                       *)

\* SlaveDevice::init holds the mutex of its slave while it asks for the serial number.
Configuring == checker = "configure"

StartCycle ==
    /\ data = "start"
    /\ in_operational' = TRUE
    /\ data' = "top"
    /\ UNCHANGED <<main, hook, checker, context, registered, ownership, running, exiting,
                   exiting_reset_called, bus, history>>

Cycle ==
    /\ data = "top" /\ running /\ ~Configuring
    /\ data' = "reset"
    /\ UNCHANGED <<main, hook, checker, context, registered, ownership, flags, bus, history>>

ResetDue == exiting /\ ~exiting_reset_called

ExitReset ==
    /\ data = "reset"
    /\ exiting_reset_called' = (exiting_reset_called \/ ResetDue)
    /\ resets' = IF ResetDue /\ resets < 2 THEN resets + 1 ELSE resets
    /\ data' = "send"
    /\ UNCHANGED <<main, hook, checker, context, registered, ownership, running, exiting,
                   in_operational, bus, sent, reconnects>>

Send ==
    /\ data = "send" /\ ~Configuring
    /\ sent' = (sent \/ exiting_reset_called)
    /\ data' = "top"
    /\ UNCHANGED <<main, hook, checker, context, registered, ownership, flags, bus, resets, reconnects>>

\* The loop ends, and the publishers and subscribers of the slaves are dropped.
EndCycle ==
    /\ data = "top" /\ ~running /\ ~Configuring
    /\ data' = "ended"
    /\ UNCHANGED <<main, hook, checker, context, registered, ownership, flags, bus, history>>

DataThread == StartCycle \/ Cycle \/ ExitReset \/ Send \/ EndCycle

-----------------------------------------------------------------------------
(* The checker thread.  SlaveLink has its rounds in detail: here a round    *)
(* configures a slave anew or does nothing.                                 *)

LoopsOn_Forever == TRUE          \* mutant: the loop has no end
LoopsOn == running /\ context

Reconnect ==
    /\ checker = "idle" /\ LoopsOn /\ in_operational
    /\ reconnects < MaxReconnects
    /\ reconnects' = reconnects + 1
    /\ checker' = "configure"
    /\ UNCHANGED <<main, hook, data, context, registered, ownership, flags, bus, resets, sent>>

\* init asks the node for the buffer lengths of the board, through get_node().
Configure ==
    /\ checker = "configure"
    /\ IF owned THEN checker' = "idle" /\ UNCHANGED main
                ELSE main' = "aborted" /\ UNCHANGED checker
    /\ UNCHANGED <<hook, data, context, registered, ownership, flags, bus, history>>

EndChecks ==
    /\ checker = "idle" /\ ~LoopsOn
    /\ checker' = "ended"
    /\ UNCHANGED <<main, hook, data, context, registered, ownership, flags, bus, history>>

Checker == Reconnect \/ Configure \/ EndChecks

-----------------------------------------------------------------------------
Next == ~Gone /\ UNCHANGED env /\ (Main \/ Signal \/ Hook \/ DataThread \/ Checker)

\* All threads are scheduled.  Nobody has to send a signal, no slave has to reconnect.
Step(action) == ~Gone /\ action /\ UNCHANGED env
Fairness ==
    /\ WF_vars(Step(Main)) /\ WF_vars(Step(Hook))
    /\ WF_vars(Step(DataThread)) /\ WF_vars(Step(Configure \/ EndChecks))

Spec == Init /\ [][Next]_vars /\ Fairness

-----------------------------------------------------------------------------
(* Properties.                                                              *)

LifeTypeOK ==
    /\ env \in Environments
    /\ main \in {"setup", "start_checker", "register", "spin", "destroy", "shutdown",
                 "exited", "aborted"}
    /\ hook \in {"none", "called", "get_node", "request", "wait", "join_data", "join_checker",
                 "close", "release", "over"}
    /\ data \in {"none", "start", "top", "reset", "send", "ended", "joined"}
    /\ checker \in {"none", "idle", "configure", "ended", "joined"}
    /\ context \in BOOLEAN /\ registered \in BOOLEAN /\ owned \in BOOLEAN /\ held \in BOOLEAN
    /\ running \in BOOLEAN /\ exiting \in BOOLEAN /\ exiting_reset_called \in BOOLEAN
    /\ in_operational \in BOOLEAN /\ bus \in BOOLEAN
    /\ resets \in 0 .. 1 /\ sent \in BOOLEAN /\ reconnects \in 0 .. MaxReconnects

\* The process does not leave the actuators with their last command: once the data thread
\* was started, the process is gone only after a frame with the reset has been sent.
ResetSent == Gone /\ data # "none" => sent

\* ... which is true of a process that is stopped while it spins, by a hook that gets hold
\* of the node, with all slaves in place.
ActuatorsReset == ~env.early /\ env.hookFirst /\ reconnects = 0 => ResetSent

\* on_shutdown waits "until reset command sent", whenever the process is stopped while it
\* spins (but the node may be gone before: life_wakes).
StopResets == ~env.early => ResetSent

\* Nobody uses the bus after it has been closed, and nobody the node after its end.
ThreadsEndFirst == ~Gone /\ (~bus \/ (~owned /\ ~held)) => Survives

\* Every variable has its type, and what has been closed or ended is not used any more.
LifeSafe == LifeTypeOK /\ ThreadsEndFirst

\* A signal ends the process, whatever the threads were doing, if the set-up brought all
\* slaves to OP; otherwise it has started no thread and on_shutdown waits for one.
SignalEnds == env.operational /\ ~context ~> Gone
=============================================================================
