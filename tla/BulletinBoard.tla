--------------------------- MODULE BulletinBoard ---------------------------
(***************************************************************************)
(* What the public is promised about the registry of a poll, whatever box  *)
(* keeps it: entries are only ever added, only while the poll is open; a   *)
(* figure is published about the whole of the registry as it stands, never *)
(* about a part of it; and after the close, which is a publication point,  *)
(* nothing about the poll changes any more.                                *)
(***************************************************************************)
EXTENDS Naturals, Sequences

CONSTANT Records

VARIABLES
    phase,      \* "not opened", "open" or "closed"
    log,        \* the registry
    published   \* the lengths the registry had when a figure was published

boardVars == <<phase, log, published>>

Init ==
    /\ phase = "not opened"
    /\ log = <<>>
    /\ published = {}

\* Figures are published about the registry as it is.
Report == published' \in {published, published \union {Len(log)}}

Open ==
    /\ phase = "not opened"
    /\ phase' = "open"
    /\ UNCHANGED <<log, published>>

\* A report that has fallen due goes out before the entry that comes after it.
Post ==
    /\ phase = "open"
    /\ \E r \in Records : log' = Append(log, r)
    /\ Report
    /\ UNCHANGED phase

Publish ==
    /\ phase # "closed"
    /\ Report
    /\ UNCHANGED <<phase, log>>

Close ==
    /\ phase # "closed"
    /\ phase' = "closed"
    /\ published' = published \union {Len(log)}
    /\ UNCHANGED log

Next == Open \/ Post \/ Publish \/ Close

Spec == Init /\ [][Next]_boardVars
=============================================================================
