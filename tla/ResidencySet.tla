---------------------------- MODULE ResidencySet ----------------------------
(***************************************************************************)
(* What the residency window promises: a set of at most Capacity resident  *)
(* pages.  A page enters alone, and the only page that may have to leave   *)
(* for it is one that is not pinned, and none leaves before the set is     *)
(* full unless the pipe reserves frames ("early"); a flush leaves exactly  *)
(* the pinned pages; a read of a resident page returns that page.  Frames, *)
(* the clock, soft pins and fills are not visible here.                    *)
(***************************************************************************)
EXTENDS Integers, FiniteSets

CONSTANTS Pages, Capacity

VARIABLES resident, pinned, copied, early

vars == <<resident, pinned, copied, early>>

Init ==
  /\ resident = {} /\ pinned = {} /\ copied = [want |-> -1, got |-> -1]
  /\ early \in BOOLEAN

\* At most one unpinned page gives way.
Leaving == {{}} \cup {{q} : q \in resident \ pinned}

\* Pages may give way: the set is full, or frames are reserved for others.
MayEvict == early \/ Cardinality(resident) >= Capacity

Enter(p) ==
  /\ \E out \in Leaving : /\ out # {} => MayEvict
                          /\ resident' = (resident \ out) \cup {p}
  /\ pinned' \in {pinned, pinned \cup {p}}
  /\ UNCHANGED copied

\* A frame is reserved.
Leave ==
  /\ early
  /\ \E out \in Leaving : resident' = resident \ out
  /\ UNCHANGED <<pinned, copied>>

PinResident(p) ==
  /\ p \in resident
  /\ pinned' = pinned \cup {p}
  /\ UNCHANGED <<resident, copied>>

Flush == resident' = pinned /\ UNCHANGED <<pinned, copied>>

Reset == resident' = {} /\ pinned' = {} /\ UNCHANGED copied

Read(p) ==
  /\ p \in resident
  /\ copied' = [want |-> p, got |-> p]
  /\ UNCHANGED <<resident, pinned>>

Next ==
  \/ \E p \in Pages : Enter(p) \/ PinResident(p) \/ Read(p)
  \/ Leave \/ Flush \/ Reset

\* A step never holds more than Capacity pages, and "early" stays.
Within == Cardinality(resident') <= Capacity /\ early' = early

Spec == Init /\ [][Next /\ Within]_vars
=============================================================================
