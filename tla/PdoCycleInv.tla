---------------------------- MODULE PdoCycleInv ----------------------------
(***************************************************************************)
(* The inductive invariant of the process-data cycle.                      *)
(***************************************************************************)
EXTENDS PdoCycleRefinement

Commands == CmdWords \cup {InitWord}

\* Everything below is about the arguments no command has named.
Kept(s, w) == NamesArg(w) /\ w[1] \notin hist[s].astray

\* Before the slave is started, a word on its way to it names no argument, or one with its
\* right byte that is not ahead of the one the master is sending.
WordSound(s, status, word) ==
    status < MASTER_READY /\ Kept(s, word)
        => word = ArgWord(word[1]) /\ word[1] <= dev[s].arg_idx

\* A command, or the exit reset, is halfway through the buffer.
HalfWritten(s) == Locked(s) \/ (phase = "exit_rest" /\ cur = s /\ dev[s].arg_sent)

SendsSound(s) ==
    /\ WordSound(s, dev[s].master_status, dev[s].m2s_buf)
    /\ WordSound(s, out[s].status, out[s].word)
    /\ WordSound(s, fw[s].rx.status, fw[s].rx.word)
    /\ HalfWritten(s) /\ dev[s].master_status < MASTER_READY => ~Kept(s, dev[s].m2s_buf)

\* The bytes the slave stored are right.
StoreSound(s) ==
    \A i \in (1 .. ArgLen) \ hist[s].astray : fw[s].store[i] \in {Arg[i], NoByte}

\* An echo that names an argument is evidence that the slave stored it.
Echoes(s) == {fw[s].tx.word, inp[s].word, dev[s].s2m_buf}
EchoSound(s) == \A w \in Echoes(s) : Kept(s, w) => fw[s].store[w[1]] = Arg[w[1]]

\* All bytes before the one being sent are stored, and all of them once it is over.
ConfirmedSound(s) ==
    \A i \in (1 .. ArgLen) \ hist[s].astray :
        i < dev[s].arg_idx \/ dev[s].arg_sent => fw[s].store[i] = Arg[i]

\* No slave has been lost: the buffer is loaded with the initial values.
NotReconnected(s) == dev[s].reconnected = 0

TransferSound(s) ==
    NotReconnected(s) /\ StoreSound(s) /\ SendsSound(s) /\ EchoSound(s) /\ ConfirmedSound(s)

TransferInv == \A s \in Slaves : TransferSound(s)

-----------------------------------------------------------------------------
\* A working status is seen anywhere only after the master has started the slave.
Statuses(s) == {out[s].status, fw[s].rx.status, fw[s].tx.status, inp[s].status, dev[s].slave_status}
StartedSound(s) ==
    /\ NotReconnected(s)
    /\ dev[s].master_status >= MASTER_SENDING_ARGUMENTS
    /\ dev[s].master_status >= MASTER_READY => dev[s].arg_sent
    /\ dev[s].ready => dev[s].master_status >= MASTER_READY
    /\ dev[s].master_status > MASTER_READY => dev[s].ready
    /\ \A st \in Statuses(s) : st >= MASTER_READY => dev[s].master_status >= MASTER_READY

CommandSound(s) ==
    /\ hist[s].want \in Commands
    /\ ~exiting => /\ Locked(s) => dev[s].m2s_buf[1] = ros.word[1]
                   /\ dev[s].master_status >= MASTER_READY /\ ~Locked(s)
                          => dev[s].m2s_buf = hist[s].want
                   /\ \A f \in {out[s], fw[s].rx} : f.status >= MASTER_READY => f.word \in Commands

ResetPhaseSound == (phase = "exit_rest" \/ (phase = "exit" /\ cur > 1)) => exiting

CommandInv == ResetPhaseSound /\ \A s \in Slaves : StartedSound(s) /\ CommandSound(s)

-----------------------------------------------------------------------------
\* Along the way from the master to the slave and back the epochs only get older, and
\* the oldest is at most one behind.
EpochsOrdered(s) ==
    /\ hist[s].pubs <= hist[s].seen + 1
    /\ hist[s].seen <= inp[s].epoch
    /\ inp[s].epoch <= fw[s].tx.epoch
    /\ fw[s].tx.epoch <= fw[s].rx.epoch
    /\ fw[s].rx.epoch <= out[s].epoch
    /\ out[s].epoch <= hist[s].pubs

\* A working status tells the epoch: it is the current one, or the one before.
StatusTells(s, status, epoch) ==
    status >= MASTER_READY =>
        /\ epoch = hist[s].pubs => status = dev[s].master_status
        /\ epoch + 1 = hist[s].pubs => NextStatus(status) = dev[s].master_status

StatusesTell(s) ==
    /\ \A f \in {out[s], fw[s].rx, fw[s].tx, inp[s]} : StatusTells(s, f.status, f.epoch)
    /\ StatusTells(s, dev[s].slave_status, hist[s].seen)

\* A working status comes with telemetry.
SamplesSound(s) ==
    /\ \A f \in {fw[s].tx, inp[s]} : f.status >= MASTER_READY => f.word \in Telemetry
    /\ dev[s].slave_status >= MASTER_READY => dev[s].s2m_buf \in Telemetry

FreshInv == \A s \in Slaves : EpochsOrdered(s) /\ StatusesTell(s) /\ SamplesSound(s)

\* The inductive invariant: the transfer, the commands and the samples.
IndInv == TransferInv /\ CommandInv /\ FreshInv

-----------------------------------------------------------------------------
\* What the exit reset rests on: no callback has run since shutdown began.
NoLateCallback == late = 0

\* The exit reset has passed this slave; the frame that follows it has been assembled
\* for this slave.
Passed(s) == exiting_reset_called \/ (phase \in {"exit", "exit_rest"} /\ s < cur)
Assembled(s) ==
    exiting_reset_called /\ (phase \in {"send", "cleanup", "done"} \/ (phase = "transfer" /\ s < cur))

ExitSound(s) ==
    /\ dev[s].master_status >= MASTER_READY =>
           /\ phase = "exit_rest" /\ cur = s => dev[s].m2s_buf[1] = InitWord[1]
           /\ Passed(s) => dev[s].m2s_buf = InitWord
    /\ Assembled(s) /\ out[s].status >= MASTER_READY => out[s].word = InitWord

\* Inductive together with CommandInv, as callbacks are counted and never uncounted.
ExitInv == NoLateCallback =>
    /\ exiting => ros = NoCall
    /\ exiting_reset_called => exiting
    /\ \A s \in Slaves : ExitSound(s)
=============================================================================
