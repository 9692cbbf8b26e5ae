------------------------------ MODULE MigConst ------------------------------
(***************************************************************************)
(* The states of a cache line under the migratory protocol, the flags an   *)
(* acknowledgement carries, and the protocol's transition table, as pure   *)
(* operators of the state (mig_const.hpp and the switch statements of      *)
(* migratory_manager.cpp).  do_mig is the --mig option of the simulator:   *)
(* when it is off the manager behaves like plain MESI.                     *)
(***************************************************************************)
EXTENDS Naturals

CONSTANT do_mig

ASSUME DoMigAssumption == do_mig \in BOOLEAN

CohState == {"INVALID", "SHARED", "EXCLUSIVE", "DIRTY", "SHARED2",
             "MIGRATORY_CLEAN", "MIGRATORY_DIRTY"}

(***************************************************************************)
(* A machine word that is used as a set of flags is the set of its bits    *)
(* that are one, so that the code's | and & are union and intersection.    *)
(* A C++ bool promoted to a word has at most bit 0.                        *)
(***************************************************************************)
FLAG_SHARED    == {0}
FLAG_MIGRATORY == {1}
FLAG_TRANSMIT  == {2}
FlagWord       == SUBSET (0 .. 2)

BoolWord(b) == IF b THEN {0} ELSE {}

(***************************************************************************)
(* Operators named X_<mistake> are X with a mistake a programmer could     *)
(* make there.  No specification uses them: they are put in the place of X *)
(* to see that a property notices.                                         *)
(***************************************************************************)

\* Permissions of a state.
can_read(s)   == s # "INVALID"
can_write(s)  == s \in {"DIRTY", "MIGRATORY_DIRTY"}
rw_upgrade(s) == s \in {"EXCLUSIVE", "MIGRATORY_CLEAN"}

\* The silent upgrade of a line that nobody else holds, on a local write.
rw_upgrade_state(s) ==
    IF s = "EXCLUSIVE" THEN "DIRTY" ELSE "MIGRATORY_DIRTY"

busRd_state_keeps_clean(s) ==
    IF s = "MIGRATORY_DIRTY" THEN "INVALID"
    ELSE IF s \in {"EXCLUSIVE", "MIGRATORY_CLEAN"} THEN s
    ELSE IF do_mig /\ s = "DIRTY" THEN "SHARED2"
    ELSE "SHARED"

busRd_flags_of_dirty(s) ==
    IF s \in {"DIRTY", "MIGRATORY_DIRTY"} THEN FLAG_MIGRATORY ELSE FLAG_SHARED

\* A read request of another processor: the state a valid line moves to, and
\* the flags its holder acknowledges with.
busRd_state(s) ==
    IF s = "MIGRATORY_DIRTY" THEN "INVALID"
    ELSE IF do_mig /\ s \in {"EXCLUSIVE", "DIRTY", "MIGRATORY_CLEAN"} THEN "SHARED2"
    ELSE "SHARED"

busRd_flags(s) ==
    IF s = "MIGRATORY_DIRTY" THEN FLAG_MIGRATORY ELSE FLAG_SHARED

\* A write request of another processor invalidates every valid line; a holder
\* that looks like the end of a migration says so.
busRdX_flags(s) ==
    IF \/ s = "MIGRATORY_DIRTY"
       \/ do_mig /\ s \in {"EXCLUSIVE", "DIRTY", "SHARED2"}
    THEN FLAG_MIGRATORY
    ELSE {}

\* The state in which a finished read request installs the line, from what its
\* acknowledgements said.
read_state(shared, migratory) ==
    IF migratory /\ do_mig THEN "MIGRATORY_CLEAN"
    ELSE IF shared THEN "SHARED"
    ELSE "EXCLUSIVE"

\* The state in which a finished write request installs the line; s is the
\* state of the requester's own line, "INVALID" when it has none.
write_state(s, migratory) ==
    IF \/ s \in {"EXCLUSIVE", "SHARED2"}
       \/ s \in {"SHARED", "INVALID"} /\ ~(migratory /\ do_mig)
    THEN "DIRTY"
    ELSE "MIGRATORY_DIRTY"

=============================================================================
