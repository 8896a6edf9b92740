----------------------------- MODULE CouponUses -----------------------------
(***************************************************************************)
(* The uses of coupons that the studio has to honour: a redemption adds    *)
(* one, and a reversal takes back the redemption it was asked for.         *)
(***************************************************************************)
EXTENDS Loyalty

VARIABLE uses

UsesInit == Init /\ uses = {}

\* The reversal of r was asked for the redemption it read.
Reversed ==
    {u \in Keys \X Appointments : \E r \in Requests :
        r \notin gone /\ proc[r].appt = u[2] /\ ReverseWrite(r, u[1])}

UsesNext ==
    /\ Next
    /\ uses' = (uses \ Reversed) \union
               {<<k, coupon'[k].appt>> : k \in {j \in Keys : coupon'[j].status = "REDEEMED"}}

UsesSpec == UsesInit /\ [][UsesNext]_<<vars, uses>>

\* A coupon serves one appointment: it is used a second time only after a
\* reversal of its first use ("Recompensas de un solo uso",
\* docs/ROADMAP.md:208).
SingleUse ==
    \A u, v \in uses : u[1] = v[1] => u = v

=============================================================================
