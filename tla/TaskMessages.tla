---------------------------- MODULE TaskMessages ----------------------------
(***************************************************************************)
(* The two views of the tasks side by side: the bytes and messages of one  *)
(* slave, whose mutex is held (Tasks), and the message object of a class,  *)
(* which the mutexes of its slaves do not protect (SharedReport).  They    *)
(* share no variable: an execution is of one or of the other.              *)
(***************************************************************************)
EXTENDS Tasks

CONSTANTS SlaveCount, MotorCount, Enabled, Versions
VARIABLES
    view,     \* "bytes" or "object"
    object, works, thread, published
objectVars == <<object, works, thread, published>>
Objects == INSTANCE SharedReport

ViewsInit ==
    /\ Init /\ Objects!Init
    /\ \/ view = "bytes"
       \/ view = "object" /\ board = CHOOSE bd \in Boards : TRUE

ViewsNext ==
    /\ UNCHANGED view
    /\ \/ view = "bytes" /\ Next /\ UNCHANGED objectVars
       \/ view = "object" /\ Objects!Next /\ UNCHANGED vars

ViewsSpec == ViewsInit /\ [][ViewsNext]_<<vars, objectVars, view>>

-----------------------------------------------------------------------------
\* A message is what its slave reported for this very task, or the empty message of a loss:
\* among the tasks of one slave, byte by byte; and, if no other thread used the object
\* meanwhile, whatever a task of another slave left in it.  A lost slave's last message is the
\* empty one.
MessagesRight == PublishesItsReport /\ Objects!OwnWhenAlone /\ Objects!LossIsLast

\* "report message has been reset": this does not hold where two threads work on the object.
LossReported == Objects!LossReported
=============================================================================
