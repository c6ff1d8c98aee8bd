---------------------------- MODULE SharedReport ----------------------------
(***************************************************************************)
(* The message object of a task class is static: tasks of several slaves   *)
(* use it, each under the mutex of its own slave only.  The data thread    *)
(* reads a report into it and publishes it (DJI_MOTOR::read) while the     *)
(* state checker may be publishing the empty message of another slave it   *)
(* found lost (DJI_MOTOR::publish_empty_message): both fill the object     *)
(* field by field, and publish() reads it field by field.                  *)
(*                                                                         *)
(* A slave has one task of the class; a field stands for what is reported  *)
(* of one motor.  What the fields mean is in TaskReports.                  *)
(***************************************************************************)
EXTENDS Naturals

CONSTANTS
    SlaveCount,
    MotorCount,   \* motors in a message (4)
    Enabled,      \* the motors each slave's task has enabled
    Versions      \* what tells a report of a slave from the one before

Slaves == 1 .. SlaveCount
Motors == 1 .. MotorCount

Zero == <<>>                              \* a field that is zero
Values == (Slaves \X Versions) \cup {Zero}
Messages == [Motors -> Values]
EmptyMessage == [k \in Motors |-> Zero]

\* What slave s reports of its enabled motors; the others are zero.
Report(s, v) == [k \in Motors |-> IF k \in Enabled[s] THEN <<s, v>> ELSE Zero]

Threads == {"data", "checker"}

VARIABLES
    object,      \* custom_msgs_readdjimotor_shared_msg
    works,       \* slaves that are ready and configured for ROS
    thread,      \* of each thread: where it is, the slave and field it is at, the message
                 \* it means to publish and the part publish() has taken; and whether it
                 \* has had the object to itself
    published    \* by slave: the message meant, the one published, by a thread alone?
vars == <<object, works, thread, published>>

Idle(s) == [pc |-> "idle", s |-> s, k |-> 1, meant |-> EmptyMessage, msg |-> EmptyMessage,
            alone |-> TRUE]

Init ==
    /\ object = EmptyMessage
    /\ works = Slaves
    /\ thread = [t \in Threads |-> Idle(1)]
    /\ published = [s \in Slaves |-> [meant |-> EmptyMessage, msg |-> EmptyMessage, alone |-> TRUE]]

Busy(t) == thread[t].pc # "idle"
Locked(s) == \E t \in Threads : Busy(t) /\ thread[t].s = s
Other(t) == CHOOSE o \in Threads : o # t

\* A thread takes the mutex of slave s and begins to fill the object.
Begin(t, s, message) ==
    thread' = [thread EXCEPT ![t] = [Idle(s) EXCEPT !.pc = "fill", !.meant = message,
                                                    !.alone = ~Busy(Other(t))],
                             ![Other(t)].alone = @ /\ ~Busy(Other(t))]

NextSlave(s) == (s % SlaveCount) + 1

Processed(s) == s \in works

\* The data thread at its next slave: it has answered with a new report, or not.
Process ==
    LET s == thread["data"].s
    IN  /\ ~Busy("data") /\ ~Locked(s)
        /\ \/ Processed(s) /\ \E v \in Versions : Begin("data", s, Report(s, v))
           \/ thread' = [thread EXCEPT !["data"].s = NextSlave(s)]
        /\ UNCHANGED <<object, works, published>>

\* The checker found s lost: reset_state and on_connection_lost, under the mutex of s.
ResetLost(s) ==
    /\ ~Busy("checker") /\ ~Locked(s) /\ s \in works
    /\ works' = works \ {s}
    /\ Begin("checker", s, EmptyMessage)
    /\ UNCHANGED <<object, published>>

\* recover_state.
Recover(s) ==
    /\ ~Busy("checker") /\ s \notin works
    /\ works' = works \cup {s}
    /\ UNCHANGED <<object, thread, published>>

\* Mutant: a motor that is not enabled keeps what the object held.
Filled_Keeps(t, k) == IF thread[t].meant[k] = Zero THEN object[k] ELSE thread[t].meant[k]
Filled(t, k) == thread[t].meant[k]

Step(t, next) ==
    IF thread[t].k < MotorCount THEN [thread[t] EXCEPT !.k = @ + 1]
                                ELSE [thread[t] EXCEPT !.k = 1, !.pc = next]

\* One field after the other is written ...
Fill(t) ==
    /\ thread[t].pc = "fill"
    /\ object' = [object EXCEPT ![thread[t].k] = Filled(t, thread[t].k)]
    /\ thread' = [thread EXCEPT ![t] = Step(t, "publish")]
    /\ UNCHANGED <<works, published>>

\* ... then publish() takes one after the other ...
Take(t) ==
    /\ thread[t].pc = "publish"
    /\ thread' = [thread EXCEPT ![t] =
                    [Step(t, "done") EXCEPT !.msg[thread[t].k] = object[thread[t].k]]]
    /\ UNCHANGED <<object, works, published>>

\* ... and the message is out; the mutex is let go.
Done(t) ==
    /\ thread[t].pc = "done"
    /\ published' = [published EXCEPT ![thread[t].s] =
                        [meant |-> thread[t].meant, msg |-> thread[t].msg, alone |-> thread[t].alone]]
    /\ thread' = [thread EXCEPT ![t] = Idle(IF t = "data" THEN NextSlave(@.s) ELSE 1)]
    /\ UNCHANGED <<object, works>>

Next ==
    \/ Process
    \/ \E s \in Slaves : ResetLost(s) \/ Recover(s)
    \/ \E t \in Threads : Fill(t) \/ Take(t) \/ Done(t)

Spec == Init /\ [][Next]_vars

-----------------------------------------------------------------------------
\* A message that a thread published while the other did not use the object is, in every
\* field, the one meant: nothing that a task of another slave left there is in it, for a
\* read writes the fields of the motors that are not enabled as well.
OwnWhenAlone == \A s \in Slaves : published[s].alone => published[s].msg = published[s].meant

\* The reset is the last word of a lost slave: a report the data thread was about to publish
\* comes before it, none comes after it until the slave is back.
LossIsLast ==
    \A s \in Slaves : s \notin works /\ ~Locked(s) => published[s].meant = EmptyMessage

\* "task=%s, report message has been reset": what is published for the lost slave is the
\* empty message.
LossReported ==
    \A s \in Slaves : published[s].meant = EmptyMessage => published[s].msg = EmptyMessage
=============================================================================
