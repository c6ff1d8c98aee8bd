------------------------------- MODULE ErrorList -------------------------------
(***************************************************************************)
(* The list of errors of SOEM: a ring that drops its oldest entry when it  *)
(* is full, and a flag that says that there is something in it.            *)
(***************************************************************************)
EXTENDS Integers, Sequences

CONSTANT EC_MAXELIST
ASSUME ErrorListAssumption == EC_MAXELIST \in Nat \ {0}

VARIABLES
    elist,      \* [Error, head, tail]
    ecaterror,
    reported    \* the last EC_MAXELIST errors that were reported, less those popped
errorVars == <<elist, ecaterror, reported>>

Places == 0 .. EC_MAXELIST
ErrorInit ==
    /\ elist = [Error |-> [k \in Places |-> "none"], head |-> 0, tail |-> 0]
    /\ ecaterror = FALSE
    /\ reported = <<>>

After(k) == IF k + 1 > EC_MAXELIST THEN 0 ELSE k + 1
\* Mutant: a full list is left as it is.
TailAfterKept(tail, head) == tail
\* The oldest error makes room.
TailAfter(tail, head) == IF head = tail THEN After(tail) ELSE tail

\* ecx_pusherror
PushError(e) ==
    LET head == After(elist.head)
    IN  /\ elist' = [Error |-> [elist.Error EXCEPT ![elist.head] = e],
                     head |-> head, tail |-> TailAfter(elist.tail, head)]
        /\ ecaterror' = TRUE
        /\ LET all == Append(reported, e)
           IN  reported' = IF Len(all) > EC_MAXELIST THEN Tail(all) ELSE all

\* ecx_iserror
IsError == elist.head # elist.tail

\* ecx_poperror: only the call that finds nothing clears the flag.
PopError ==
    /\ ecaterror
    /\ IF IsError
         THEN /\ elist' = [elist EXCEPT !.tail = After(@), !.Error[elist.tail] = "none"]
              /\ reported' = Tail(reported)
              /\ UNCHANGED ecaterror
         ELSE ecaterror' = FALSE /\ UNCHANGED <<elist, reported>>

ErrorCount == (elist.head - elist.tail + EC_MAXELIST + 1) % (EC_MAXELIST + 1)
Listed == [k \in 1 .. ErrorCount |-> elist.Error[(elist.tail + k - 1) % (EC_MAXELIST + 1)]]

\* The list holds the last errors in their order, and while it holds one the flag is set.
ErrorsKept == Listed = reported /\ (IsError => ecaterror)
=============================================================================
