--------------------------- MODULE CoherentBlocks ---------------------------
(***************************************************************************)
(* What the caches and their managers promise together, without messages,  *)
(* directory or request table: every processor has a right on every block, *)
(* asks for more when it needs to, gets it in one step that excludes       *)
(* conflicting rights, and otherwise loses a right only to a processor     *)
(* that has asked for the block, or to make room for a block it is given.  *)
(***************************************************************************)
CONSTANTS Proc, Addr

VARIABLES
    right,   \* what each processor may do with each block
    want     \* what each processor has asked for

vars == <<right, want>>

Right == {"none", "read", "write"}
Ask   == [kind : {"read", "write"}, addr : Addr]

\* A processor that has not asked for anything.
NoAsk == [kind |-> "none"]

TypeOK ==
    /\ right \in [Proc -> [Addr -> Right]]
    /\ want \in [Proc -> Ask \cup {NoAsk}]

Wants(q, kind, a) == want[q] = [kind |-> kind, addr |-> a]

Init ==
    /\ right = [p \in Proc |-> [a \in Addr |-> "none"]]
    /\ want = [p \in Proc |-> NoAsk]

\* A processor asks for a right it does not have, one at a time.
AskFor(p, kind, a) ==
    /\ want[p] = NoAsk
    /\ right[p][a] \in (IF kind = "read" THEN {"none"} ELSE {"none", "read"})
    /\ want' = [want EXCEPT ![p] = [kind |-> kind, addr |-> a]]
    /\ UNCHANGED right

\* p gives up the right to write a block that another processor wants to read,
\* and may lose the block altogether.
YieldToReader(p, a) ==
    /\ \E q \in Proc \ {p} : Wants(q, "read", a)
    /\ right[p][a] = "write"
    /\ \E r \in {"none", "read"} : right' = [right EXCEPT ![p][a] = r]
    /\ UNCHANGED want

\* p gives up a block that another processor wants to write.
YieldToWriter(p, a) ==
    /\ \E q \in Proc \ {p} : Wants(q, "write", a)
    /\ right[p][a] # "none"
    /\ right' = [right EXCEPT ![p][a] = "none"]
    /\ UNCHANGED want

\* Beside a reader there may be other readers, beside a writer nobody.
Compatible(p, a, r) ==
    \A q \in Proc \ {p} :
        right[q][a] \in (IF r = "write" THEN {"none"} ELSE {"none", "read"})

\* p gets what it asked for, or more; it may lose one other block for it.
Grant(p) ==
    \E a \in Addr, r \in {"read", "write"} :
        /\ \/ Wants(p, "read", a)
           \/ Wants(p, "write", a) /\ r = "write"
        /\ Compatible(p, a, r)
        /\ \E v \in Addr :
              right' = [right EXCEPT ![p] =
                 [b \in Addr |-> IF b = a THEN r
                                 ELSE IF b = v THEN "none" ELSE @[b]]]
        /\ want' = [want EXCEPT ![p] = NoAsk]

Next ==
    \E p \in Proc :
        \/ \E a \in Addr : \/ \E kind \in {"read", "write"} : AskFor(p, kind, a)
                           \/ YieldToReader(p, a)
                           \/ YieldToWriter(p, a)
        \/ Grant(p)

Spec == Init /\ [][Next]_vars

=============================================================================
