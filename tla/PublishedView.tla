---------------------------- MODULE PublishedView ----------------------------
(***************************************************************************)
(* What an exporter promises Prometheus, whatever its threads are: the     *)
(* device metrics are those of the last poll or there are none, and an     *)
(* answer never reports on a later poll than the one its device metrics    *)
(* are from.                                                               *)
(***************************************************************************)
EXTENDS Integers

CONSTANT None  \* no device metrics, no answer

VARIABLES
    last,      \* the number of the last poll that began
    view,      \* the poll the device metrics are from, or None
    reported,  \* the outcome of the last poll that ended: [poll, up]
    answer,    \* the last answer: [status, data], or None
    goesOn     \* parameter: a poll goes on after its metrics are shown, and may yet fail

vars == <<last, view, reported, answer, goesOn>>

Init ==
    /\ last = 0 /\ view = None /\ reported = [poll |-> 0, up |-> FALSE]
    /\ answer = None /\ goesOn \in BOOLEAN

\* One poll at a time: the next begins when the one before has been reported.
Begin ==
    /\ reported.poll = last
    /\ last' = last + 1
    /\ UNCHANGED <<view, reported, answer, goesOn>>

\* The poll under way shows its metrics, or withdraws those of the one before.
Show ==
    /\ reported.poll < last
    /\ view' \in {last, None}
    /\ UNCHANGED <<last, reported, answer, goesOn>>

\* The poll is reported as a success only if its metrics are shown, and as a
\* failure only if none are, or if it went on after it had shown them.
Report ==
    /\ reported.poll < last /\ view \in {last, None}
    /\ \E up \in BOOLEAN :
          /\ IF up THEN view = last ELSE view = None \/ goesOn
          /\ reported' = [poll |-> last, up |-> up]
    /\ UNCHANGED <<last, view, answer, goesOn>>

\* An answer takes some time: the outcome in it may have been replaced by a
\* later one before the metrics are read, never the other way round.
Answer ==
    /\ \E status \in [poll: 0 .. reported.poll, up: BOOLEAN] :
          /\ status.poll = reported.poll => status = reported
          /\ view = None \/ status.poll <= view
          /\ answer' = [status |-> status, data |-> view]
    /\ UNCHANGED <<last, view, reported, goesOn>>

Next == Begin \/ Show \/ Report \/ Answer

Spec == Init /\ [][Next]_vars
=============================================================================
