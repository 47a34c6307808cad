---------------------------- MODULE NameService -----------------------------
(***************************************************************************)
(* What the FakeIP pool promises the rest of the gateway, without shards,  *)
(* locks, cursors, clocks and goroutines: an address that was given out    *)
(* for a name turns into that name, no address goes from one name to       *)
(* another unless it was forgotten in between, and a start brings back     *)
(* nothing that was not given out before.                                  *)
(***************************************************************************)
CONSTANTS
    Addrs,
    Domains,
    None     \* no name: not a member of Domains

VARIABLES
    given,   \* pairs <<address, name>> given out by the running process
    owner,   \* [Addrs -> Domains \cup {None}]: what an address turns into
    saved    \* pairs that a start can bring back

vars == <<given, owner, saved>>

Pairs == Addrs \X Domains

Init ==
    /\ given = {}
    /\ owner = [a \in Addrs |-> None]
    /\ saved = {}

\* A name is given addresses that have no name.
Give(d) ==
    /\ \E S \in SUBSET {a \in Addrs : owner[a] = None} : given' = given \cup (S \X {d})
    /\ UNCHANGED <<owner, saved>>

\* From now on the address turns into the name it was given out for.
Bind(a, d) ==
    /\ <<a, d>> \in given
    /\ owner[a] = None
    /\ owner' = [owner EXCEPT ![a] = d]
    /\ UNCHANGED <<given, saved>>

Forget ==
    /\ \A a \in Addrs : owner'[a] \in {owner[a], None}
    /\ owner' \in [Addrs -> Domains \cup {None}]
    /\ UNCHANGED <<given, saved>>

\* What is saved was given out, though it may be forgotten by now.
Save ==
    /\ saved' \in SUBSET given
    /\ UNCHANGED <<given, owner>>

\* A new process knows of nothing but what was saved.
Restart ==
    /\ given' \in SUBSET saved
    /\ owner' \in [Addrs -> Domains \cup {None}]
    /\ \A a \in Addrs : owner'[a] # None => <<a, owner'[a]>> \in given'
    /\ UNCHANGED saved

Next ==
    \/ \E d \in Domains : Give(d)
    \/ \E a \in Addrs, d \in Domains : Bind(a, d)
    \/ Forget
    \/ Save
    \/ Restart

Spec == Init /\ [][Next]_vars
=============================================================================
