----------------------------- MODULE SlotTable -----------------------------
(***************************************************************************)
(* What the lease service promises, without its bookkeeping: a table that  *)
(* says, for every slot of every host, which lease token owns it.          *)
(*                                                                         *)
(*  - a slot is granted only while it is empty and its host is not barred; *)
(*  - a token is granted at most once, ever: a lease that was lost never   *)
(*    comes back, so its old owner can be fenced off by its token alone;   *)
(*  - barring a host empties all of its slots in the same step;            *)
(*  - a barred host keeps every slot empty until it is readmitted.         *)
(*                                                                         *)
(* LeaseService implements this specification (see LeaseService!Table).    *)
(***************************************************************************)
EXTENDS Naturals

CONSTANTS
    Hosts,   \* the provisioned hosts
    Slots,   \* Slots[h]: how many jobs host h may run at once
    Tokens   \* lease tokens

VARIABLES
    owner,   \* owner[h][s]: the tokens that own slot s of host h
    barred,  \* hosts that grant nothing
    issued   \* tokens that were granted at some time

vars == <<owner, barred, issued>>

SlotsOf(h) == 0 .. (Slots[h] - 1)

Init ==
    /\ owner = [h \in Hosts |-> [s \in SlotsOf(h) |-> {}]]
    /\ barred = {}
    /\ issued = {}

Grant(t, h, s) ==
    /\ t \notin issued
    /\ h \notin barred
    /\ owner[h][s] = {}
    /\ owner' = [owner EXCEPT ![h][s] = {t}]
    /\ issued' = issued \cup {t}
    /\ UNCHANGED barred

Vacate(t) ==
    /\ owner' = [h \in Hosts |-> [s \in SlotsOf(h) |-> owner[h][s] \ {t}]]
    /\ UNCHANGED <<barred, issued>>

Bar(A) ==
    /\ barred' = barred \cup A
    /\ owner' = [h \in Hosts |-> [s \in SlotsOf(h) |->
                    IF h \in A THEN {} ELSE owner[h][s]]]
    /\ UNCHANGED issued

Readmit(h) ==
    /\ barred' = barred \ {h}
    /\ UNCHANGED <<owner, issued>>

Next ==
    \/ \E t \in Tokens, h \in Hosts : \E s \in SlotsOf(h) : Grant(t, h, s)
    \/ \E t \in Tokens : Vacate(t)
    \/ \E A \in SUBSET Hosts : Bar(A)
    \/ \E h \in Hosts : Readmit(h)

Spec == Init /\ [][Next]_vars
=============================================================================
