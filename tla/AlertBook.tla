----------------------------- MODULE AlertBook ------------------------------
(***************************************************************************)
(* What the alert store promises the people who read the alerts table, with *)
(* no condition table, no batch and no crash in it: a book of incidents.   *)
(*                                                                         *)
(* An incident is opened for a fault that began at least Sustain ago and   *)
(* closed once, not before it began.  The incidents of one key follow one  *)
(* another.  One entry of the book opens and closes incidents of several   *)
(* keys, all as of one instant.                                            *)
(***************************************************************************)
EXTENDS Integers, Sequences

CONSTANTS Keys, Times, Sustain, Lag, Null

VARIABLES
    book, \* for each key its incidents, oldest first
    now   \* the latest event time known

Incident == [from : Times, to : Times \cup {Null}]

IsOpen(incidents) == incidents # <<>> /\ incidents[Len(incidents)].to = Null

Init == book = [k \in Keys |-> <<>>] /\ now = 0

\* Telemetry arrives.
Advance ==
    /\ \E t \in Times : t > now /\ now' = t
    /\ UNCHANGED book

Opened(k, from) ==
    /\ ~IsOpen(book[k])
    /\ from + Sustain <= now
    /\ book[k] # <<>> => from + Lag >= book[k][Len(book[k])].to
    /\ book'[k] = Append(book[k], [from |-> from, to |-> Null])

ClosedAt(k, at) ==
    /\ IsOpen(book[k])
    /\ at >= book[k][Len(book[k])].from
    /\ book'[k] = [book[k] EXCEPT ![Len(book[k])].to = at]

Enter ==
    /\ \E at \in Times :
          /\ at <= now /\ at + Lag >= now
          /\ \A k \in Keys :
                \/ book'[k] = book[k]
                \/ \E from \in Times : Opened(k, from)
                \/ ClosedAt(k, at)
    /\ DOMAIN book' = Keys
    /\ UNCHANGED now

Next == Advance \/ Enter

Spec == Init /\ [][Next]_<<book, now>>
=============================================================================
