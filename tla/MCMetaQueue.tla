----------------------------- MODULE MCMetaQueue -----------------------------
(* Small instances of MetaQueue for TLC: two or three events, one process. *)
EXTENDS MetaQueue, TLC

CONSTANTS e1, e2, e3, w1, p1, p2, m1

\* Forms filled in by one person, once with an address; by two people.
OnePerson == (e1 :> p1) @@ (e2 :> p1) @@ (e3 :> p1)
OneAddress == (e1 :> m1) @@ (e2 :> Blank) @@ (e3 :> Blank)
TwoPhones == (e1 :> p1) @@ (e2 :> p2)
NoAddress == (e1 :> Blank) @@ (e2 :> Blank)

BothHere == (e1 :> "fmc") @@ (e2 :> "fmc")
Everywhere == (e1 :> "fmc") @@ (e2 :> "av") @@ (e3 :> "fmc")

EnteredBoth == {<<"fmc", p1>>, <<"fmc", m1>>, <<"av", p1>>}
Nobody == {}
=============================================================================
