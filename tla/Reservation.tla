----------------------------- MODULE Reservation -----------------------------
(***************************************************************************)
(* What the studio promises about a reservation, with no requests, rows or *)
(* deposits: a reservation has one stage and, while it is alive, a place   *)
(* in the diary of one technician that no other living reservation meets.  *)
(* A payment decision and the stage it leads to are one event here; the    *)
(* implementation keeps them in two tables.                                *)
(***************************************************************************)
EXTENDS Integers

CONSTANTS Reservations, Places

VARIABLES stage, place

Alive == {"held", "review", "booked"}
Ended == {"attended", "missed", "lapsed", "released"}

Meet(p, q) == /\ p.tech = q.tech
              /\ p.start < q.start + q.duration
              /\ q.start < p.start + p.duration

Vacant(r, p) == \A o \in Reservations \ {r} : stage[o] \in Alive => ~Meet(p, place[o])

Init == /\ stage = [r \in Reservations |-> "free"]
        /\ place \in [Reservations -> Places]

Become(r, new) == stage' = [stage EXCEPT ![r] = new]

\* A client holds a place online, or staff write an appointment down.
Open(r, p) ==
    /\ stage[r] = "free"
    /\ Vacant(r, p)
    /\ Become(r, "held") \/ Become(r, "booked")
    /\ place' = [place EXCEPT ![r] = p]

\* The receipt of the deposit arrives.
Present(r) == stage[r] = "held" /\ Become(r, "review") /\ UNCHANGED place

\* The administrator accepts or rejects it.
Decide(r) == /\ stage[r] = "review"
             /\ Become(r, "booked") \/ Become(r, "released")
             /\ UNCHANGED place

\* The deadline passes for some holds at once.
Lapse(rs) == /\ rs # {}
             /\ \A r \in rs : stage[r] = "held"
             /\ stage' = [r \in Reservations |-> IF r \in rs THEN "lapsed" ELSE stage[r]]
             /\ UNCHANGED place

Release(r) == stage[r] \in Alive /\ Become(r, "released") /\ UNCHANGED place

Move(r, p) == /\ stage[r] \in Alive
              /\ Vacant(r, p)
              /\ place' = [place EXCEPT ![r] = p]
              /\ UNCHANGED stage

Close(r) == /\ stage[r] = "booked"
            /\ Become(r, "attended") \/ Become(r, "missed")
            /\ UNCHANGED place

Next == \/ \E r \in Reservations :
              \/ \E p \in Places : Open(r, p) \/ Move(r, p)
              \/ Present(r) \/ Decide(r) \/ Release(r) \/ Close(r)
        \/ \E rs \in SUBSET Reservations : Lapse(rs)

Spec == Init /\ [][Next]_<<stage, place>>
=============================================================================
