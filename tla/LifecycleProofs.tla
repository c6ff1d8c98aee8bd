-------------------------- MODULE LifecycleProofs --------------------------
(***************************************************************************)
(* The end of the process, for any number of slaves that are configured    *)
(* anew: nobody uses the bus or the node after its end, and the actuators  *)
(* are reset.  main, the signal thread, the data thread and the checker    *)
(* hold one another up, and the invariant says who has got how far.        *)
(***************************************************************************)
EXTENDS Lifecycle, TLAPS

SettingUp == {"setup", "start_checker", "register"}
Holding == {"request", "wait", "join_data", "join_checker", "close", "release"}

\* Who owns the node: main until it lets go, the hook (which a signal starts) between
\* get_node() and the end of its call.  No thread is started once the hook is registered.
OwnersKnown ==
    /\ context => hook = "none"
    /\ held <=> hook \in Holding
    /\ hook = "get_node" \/ held \/ ~bus => registered
    /\ registered => main \notin SettingUp
    /\ ~owned => main \in {"shutdown", "exited", "aborted"}

\* The hook joins the data thread, then the checker, then closes the bus.
JoinedInOrder ==
    /\ hook \in {"join_checker", "close", "release"} => data \in NotJoinable
    /\ hook \in {"close", "release"} \/ ~bus => Survives
    /\ ~Gone /\ ~owned /\ ~held => Survives

ResetsCounted == resets = IF exiting_reset_called THEN 1 ELSE 0

LifeInv == LifeTypeOK /\ ResetsCounted /\ OwnersKnown /\ JoinedInOrder

-----------------------------------------------------------------------------
\* The environments in which the reset is certain.
Orderly == ~env.early /\ env.hookFirst /\ reconnects = 0

\* A signal finds main in spin and the hook registered, and when spin returns the hook
\* holds the node; so the data thread, if there is one, is joined before the node ends.
HookInTime ==
    /\ main \in SettingUp => context
    /\ main = "setup" => data = "none" /\ running /\ ~exiting_reset_called
    /\ main = "spin" => registered
    /\ data # "none" /\ main \notin SettingUp =>
           /\ hook \in {"none", "called", "get_node"} => main = "spin"
           /\ hook = "none" => context
           /\ hook = "over" => data = "joined" /\ checker \in NotJoinable
    /\ checker # "configure"

\* The threads are stopped after the reset, and the data thread sends what the reset has
\* written before it looks whether it has been stopped.
ResetIsSent ==
    /\ exiting_reset_called => sent \/ data = "send"
    /\ ~running /\ data # "none" => exiting_reset_called
    /\ data \in {"ended", "joined"} => exiting_reset_called /\ sent

OrderlyInv == Orderly => HookInTime /\ ResetIsSent /\ ResetSent

-----------------------------------------------------------------------------
\* main begins with the node in its hands and no thread.
LEMMA InitLife == Init => LifeInv
<1>. SUFFICES ASSUME Init PROVE LifeInv
  OBVIOUS
<1>1. LifeTypeOK
  <2>1. resets \in 0 .. 1 /\ reconnects \in 0 .. MaxReconnects
    BY LifecycleAssumption DEF Init
  <2>. QED
    BY <2>1, Zenon DEF Init, LifeTypeOK
<1>2. ResetsCounted
  BY DEF Init, ResetsCounted
<1>3. OwnersKnown /\ JoinedInOrder
  BY DEF Init, OwnersKnown, JoinedInOrder, Survives, NotJoinable, SettingUp, Holding, Gone
<1>. QED
  BY <1>1, <1>2, <1>3 DEF LifeInv

\* The reset is done once, and the bound on the slaves configured anew is kept.
LEMMA CountsTyped ==
    LifeTypeOK /\ ResetsCounted /\ [Next]_vars =>
        resets' \in 0 .. 1 /\ ResetsCounted' /\ reconnects' \in 0 .. MaxReconnects
<1>. SUFFICES ASSUME LifeTypeOK, ResetsCounted, [Next]_vars
              PROVE  resets' \in 0 .. 1 /\ ResetsCounted' /\ reconnects' \in 0 .. MaxReconnects
  OBVIOUS
<1>0. /\ resets \in 0 .. 1 /\ reconnects \in 0 .. MaxReconnects
      /\ exiting_reset_called \in BOOLEAN /\ exiting \in BOOLEAN
  BY DEF LifeTypeOK
<1>. USE DEF flags, history
<1>1. CASE ExitReset
  BY <1>0, <1>1 DEF ExitReset, ResetDue, ResetsCounted
<1>2. CASE Reconnect
  BY <1>0, <1>2, LifecycleAssumption DEF Reconnect, ResetsCounted
<1>3. CASE ~ExitReset /\ ~Reconnect
  <2>1. UNCHANGED <<resets, reconnects, exiting_reset_called>>
    BY <1>3 DEF Next, vars, Main, SetupFails, SetupThrows, SetupSucceeds, SetupIncomplete,
                StartChecker, RegisterHook, SpinReturns, DestroyNode, Return, Signal, Hook,
                CallHook, GetNode, RequestReset, StopThreads, JoinData, JoinChecker, CloseBus,
                ReleaseNode, DataThread, StartCycle, Cycle, Send, EndCycle, Checker, Configure,
                EndChecks
  <2>. QED
    BY <1>0, <2>1 DEF ResetsCounted
<1>. QED
  BY <1>1, <1>2, <1>3

\* The flags of the threads keep their type ...
FlagsTyped ==
    /\ context \in BOOLEAN /\ registered \in BOOLEAN /\ owned \in BOOLEAN /\ held \in BOOLEAN
    /\ running \in BOOLEAN /\ exiting \in BOOLEAN /\ exiting_reset_called \in BOOLEAN
    /\ in_operational \in BOOLEAN /\ bus \in BOOLEAN /\ sent \in BOOLEAN

\* ... in every step ...
LEMMA FlagsStayTyped == FlagsTyped /\ [Next]_vars => FlagsTyped'
<1>. SUFFICES ASSUME FlagsTyped, [Next]_vars PROVE FlagsTyped'
  OBVIOUS
<1>. USE DEF FlagsTyped, flags, ownership, history
<1>1. CASE Main
  <2>1. CASE SetupFails
    BY <2>1 DEF SetupFails
  <2>2. CASE SetupThrows
    BY <2>2 DEF SetupThrows
  <2>3. CASE SetupSucceeds
    BY <2>3 DEF SetupSucceeds
  <2>4. CASE SetupIncomplete
    BY <2>4 DEF SetupIncomplete
  <2>5. CASE StartChecker
    BY <2>5 DEF StartChecker
  <2>6. CASE RegisterHook
    BY <2>6 DEF RegisterHook
  <2>7. CASE SpinReturns
    BY <2>7 DEF SpinReturns
  <2>8. CASE Return
    BY <2>8 DEF Return
  <2>9. CASE DestroyNode
    BY <2>9, Zenon DEF DestroyNode
  <2>. QED
    BY <1>1, <2>1, <2>2, <2>3, <2>4, <2>5, <2>6, <2>7, <2>8, <2>9 DEF Main
<1>2. CASE Signal
  BY <1>2 DEF Signal
<1>3. CASE Hook
  <2>1. CASE CallHook
    BY <2>1 DEF CallHook
  <2>2. CASE GetNode
    BY <2>2 DEF GetNode
  <2>3. CASE RequestReset
    BY <2>3 DEF RequestReset
  <2>4. CASE StopThreads
    BY <2>4 DEF StopThreads
  <2>5. CASE JoinData
    BY <2>5 DEF JoinData
  <2>6. CASE JoinChecker
    BY <2>6 DEF JoinChecker
  <2>7. CASE CloseBus
    BY <2>7 DEF CloseBus
  <2>8. CASE ReleaseNode
    BY <2>8 DEF ReleaseNode
  <2>. QED
    BY <1>3, <2>1, <2>2, <2>3, <2>4, <2>5, <2>6, <2>7, <2>8 DEF Hook
<1>4. CASE DataThread
  BY <1>4, ZenonT(60) DEF DataThread, StartCycle, Cycle, ExitReset, ResetDue, Send, EndCycle
<1>5. CASE Checker
  BY <1>5 DEF Checker, Reconnect, Configure, EndChecks
<1>6. CASE UNCHANGED vars
  BY <1>6 DEF vars
<1>. QED
  BY <1>1, <1>2, <1>3, <1>4, <1>5, <1>6 DEF Next

\* ... and so do the places they are at.
PlacesTyped ==
    /\ main \in {"setup", "start_checker", "register", "spin", "destroy", "shutdown",
                 "exited", "aborted"}
    /\ hook \in {"none", "called", "get_node", "request", "wait", "join_data", "join_checker",
                 "close", "release", "over"}
    /\ data \in {"none", "start", "top", "reset", "send", "ended", "joined"}
    /\ checker \in {"none", "idle", "configure", "ended", "joined"}

\* ... in every step.
LEMMA PlacesStayTyped == PlacesTyped /\ [Next]_vars => PlacesTyped'
<1>. SUFFICES ASSUME PlacesTyped, [Next]_vars PROVE PlacesTyped'
  OBVIOUS
<1>. USE DEF PlacesTyped
<1>1. CASE Main
  BY <1>1 DEF Main, SetupFails, SetupThrows, SetupSucceeds, SetupIncomplete, StartChecker,
              RegisterHook, SpinReturns, DestroyNode, Return
<1>2. CASE Signal
  BY <1>2 DEF Signal
<1>3. CASE Hook
  BY <1>3 DEF Hook, CallHook, GetNode, RequestReset, StopThreads, JoinData, JoinChecker, Joined,
              CloseBus, ReleaseNode
<1>4. CASE DataThread
  BY <1>4 DEF DataThread, StartCycle, Cycle, ExitReset, Send, EndCycle
<1>5. CASE Checker
  BY <1>5 DEF Checker, Reconnect, Configure, EndChecks
<1>6. CASE UNCHANGED vars
  BY <1>6 DEF vars
<1>. QED
  BY <1>1, <1>2, <1>3, <1>4, <1>5, <1>6 DEF Next

\* Together: every variable keeps its type.
LEMMA NextLifeTyped == LifeTypeOK /\ ResetsCounted /\ [Next]_vars => LifeTypeOK' /\ ResetsCounted'
<1>1. LifeTypeOK => env \in Environments /\ PlacesTyped /\ FlagsTyped
  BY Zenon DEF LifeTypeOK, PlacesTyped, FlagsTyped
<1>2. /\ env' \in Environments /\ PlacesTyped' /\ FlagsTyped'
      /\ resets' \in 0 .. 1 /\ reconnects' \in 0 .. MaxReconnects
      => LifeTypeOK'
  BY Zenon DEF LifeTypeOK, PlacesTyped, FlagsTyped
<1>3. [Next]_vars => env' = env
  BY DEF Next, vars
<1>. QED
  BY <1>1, <1>2, <1>3, CountsTyped, PlacesStayTyped, FlagsStayTyped

\* Every step of a process that is not gone keeps the order of the joins.
LEMMA NextLife == LifeInv /\ [Next]_vars => LifeInv'
<1>. SUFFICES ASSUME LifeInv, [Next]_vars PROVE OwnersKnown' /\ JoinedInOrder'
  BY NextLifeTyped DEF LifeInv
<1>. USE DEF LifeInv, LifeTypeOK, OwnersKnown, JoinedInOrder, Survives, NotJoinable, SettingUp,
             Holding, Gone, flags, ownership, history
<1>1. CASE Main /\ ~Gone
  BY <1>1 DEF Main, SetupFails, SetupThrows, SetupSucceeds, SetupIncomplete, StartChecker,
              RegisterHook, SpinReturns, DestroyNode, Return
<1>2. CASE Signal /\ ~Gone
  BY <1>2 DEF Signal
<1>3. CASE Hook /\ ~Gone
  BY <1>3 DEF Hook, CallHook, GetNode, RequestReset, StopThreads, JoinData, JoinChecker, Joins,
              Joined, CloseBus, ReleaseNode
<1>4. CASE DataThread /\ ~Gone
  BY <1>4 DEF DataThread, StartCycle, Cycle, ExitReset, Send, EndCycle
<1>5. CASE Checker /\ ~Gone
  BY <1>5 DEF Checker, Reconnect, Configure, EndChecks
<1>6. CASE UNCHANGED vars
  BY <1>6 DEF vars
<1>. QED
  BY <1>1, <1>2, <1>3, <1>4, <1>5, <1>6 DEF Next

\* Types, and nobody uses what has been closed or ended: neither the bus nor the node.
THEOREM NothingUsedAfterItsEnd == Spec => []LifeSafe
<1>1. LifeInv => LifeSafe
  BY DEF LifeInv, LifeSafe, JoinedInOrder, ThreadsEndFirst
<1>. QED
  BY <1>1, InitLife, NextLife, PTL DEF Spec

-----------------------------------------------------------------------------
\* At the beginning there is no signal, no thread and no reset.
LEMMA InitOrderly == Init => OrderlyInv
BY DEF Init, OrderlyInv, HookInTime, ResetIsSent, ResetSent, SettingUp, NotJoinable, Gone

\* Whether a run is orderly is decided when it begins, but for the slaves configured anew.
LEMMA OrderlyStays == LifeInv /\ [Next]_vars /\ Orderly' => Orderly
BY DEF Orderly, LifeInv, LifeTypeOK, Next, vars, history, Main, SetupFails, SetupThrows,
       SetupSucceeds, SetupIncomplete, StartChecker, RegisterHook, SpinReturns, DestroyNode, Return,
       Signal, Hook, CallHook, GetNode, RequestReset, StopThreads, JoinData, JoinChecker, CloseBus,
       ReleaseNode, DataThread, StartCycle, Cycle, ExitReset, Send, EndCycle, Checker, Reconnect,
       Configure, EndChecks

\* Every step of an orderly process leads to its end with the reset sent.
LEMMA NextOrderly == LifeInv /\ LifeInv' /\ OrderlyInv /\ [Next]_vars => OrderlyInv'
<1>. SUFFICES ASSUME LifeInv, LifeInv', OrderlyInv, [Next]_vars, Orderly'
              PROVE  HookInTime' /\ ResetIsSent' /\ ResetSent'
  BY DEF OrderlyInv
<1>0. HookInTime /\ ResetIsSent /\ ResetSent /\ Orderly
  BY OrderlyStays DEF OrderlyInv
<1>. USE <1>0 DEF Orderly, HookInTime, ResetIsSent, ResetSent, LifeInv, LifeTypeOK, OwnersKnown,
                  JoinedInOrder, Survives, NotJoinable, SettingUp, Holding, Gone, flags, ownership,
                  history
<1>1. CASE Main /\ ~Gone
  <2>1. CASE SetupFails
    BY <2>1 DEF SetupFails
  <2>2. CASE SetupThrows
    BY <2>2 DEF SetupThrows
  <2>3. CASE SetupSucceeds
    BY <2>3 DEF SetupSucceeds
  <2>4. CASE SetupIncomplete
    BY <2>4 DEF SetupIncomplete
  <2>5. CASE StartChecker
    BY <2>5 DEF StartChecker
  <2>6. CASE RegisterHook
    BY <2>6 DEF RegisterHook
  <2>7. CASE SpinReturns
    BY <2>7 DEF SpinReturns
  <2>8. CASE DestroyNode
    BY <2>8 DEF DestroyNode
  <2>9. CASE Return
    BY <2>9 DEF Return
  <2>. QED
    BY <1>1, <2>1, <2>2, <2>3, <2>4, <2>5, <2>6, <2>7, <2>8, <2>9 DEF Main
<1>2. CASE Signal /\ ~Gone
  BY <1>2 DEF Signal
<1>3. CASE Hook /\ ~Gone
  BY <1>3 DEF Hook, CallHook, GetNode, RequestReset, StopThreads, ResetAwaited, JoinData,
              JoinChecker, Joins, Joined, CloseBus, ReleaseNode
<1>4. CASE DataThread /\ ~Gone
  BY <1>4 DEF DataThread, StartCycle, Cycle, ExitReset, ResetDue, Send, EndCycle
<1>5. CASE Checker /\ ~Gone
  BY <1>5 DEF Checker, Reconnect, Configure, EndChecks
<1>6. CASE UNCHANGED vars
  BY <1>6 DEF vars
<1>. QED
  BY <1>1, <1>2, <1>3, <1>4, <1>5, <1>6 DEF Next

\* A process that is stopped while it spins, by a hook that gets hold of the node, does not
\* end before a frame with the reset has been sent.
THEOREM ResetBeforeTheEnd == Spec => []ActuatorsReset
<1>1. OrderlyInv => ActuatorsReset
  BY DEF OrderlyInv, Orderly, ActuatorsReset
<1>. QED
  BY <1>1, InitLife, NextLife, InitOrderly, NextOrderly, PTL DEF Spec
=============================================================================
