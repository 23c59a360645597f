--------------------------- MODULE MCRateScheduler ---------------------------
(* Instances of RateScheduler: two tenants, a with several mailboxes and b   *)
(* with one, behind one provider or behind two.                              *)
EXTENDS RateScheduler

CONSTANTS a1, a2, a3, a4, a5, b1

TwoProviders ==
    [t \in Tasks |-> IF t = b1 THEN <<"global", "provider b", "tenant b", t>>
                               ELSE <<"global", "provider a", "tenant a", t>>]

OneProvider ==
    [t \in Tasks |-> <<"global", "provider a", IF t = b1 THEN "tenant b" ELSE "tenant a", t>>]

ThreeMailboxes == <<a1, a2, b1>>

SixMailboxes == <<a1, a2, a3, a4, a5, b1>>

Unlimited == [d \in Domains |-> 9]

LimitedProvider == [d \in Domains |-> IF d = "provider a" THEN 1 ELSE 9]
============================================================================
