--------------------------- MODULE PermissionFlags ---------------------------
(***************************************************************************)
(* handlePermission of the irmaserver command (src/unnamed/part_000,      *)
(* lines 228-240): a permission list from the --disclose/--sign/--issue   *)
(* flags replaces the one of the configuration file after an empty first  *)
(* and an empty last entry are stripped.  One call per behaviour.          *)
(***************************************************************************)
EXTENDS Naturals, Sequences

CONSTANTS
    Entries,   \* the strings a flag list may hold; "" among them
    MaxLen     \* the longest list considered

Lists == UNION {[1..n -> Entries] : n \in 0..MaxLen}

\* The outcome of the call: the list returned, or a run-time panic.
Panic == [panic |-> TRUE, perms |-> <<>>]
Returned(p) == [panic |-> FALSE, perms |-> p]

\* handlePermission: the Go slice expression perms[len(perms)-1] panics
\* when the first stripping step emptied the list.
HandlePermission(conf, perms) ==
    IF Len(perms) = 0 THEN Returned(conf)
    ELSE LET p1 == IF perms[1] = "" THEN Tail(perms) ELSE perms IN
         IF Len(p1) = 0 THEN Panic
         ELSE IF p1[Len(p1)] = "" THEN Returned(SubSeq(p1, 1, Len(p1) - 1))
         ELSE Returned(p1)

VARIABLES conf, flag, result

vars == <<conf, flag, result>>

Pending == [panic |-> FALSE, perms |-> <<"pending">>]

Init ==
    /\ conf \in Lists
    /\ flag \in Lists
    /\ result = Pending

\* configure(), lines 204-206: one call of handlePermission.
Configure ==
    /\ result = Pending
    /\ result' = HandlePermission(conf, flag)
    /\ UNCHANGED <<conf, flag>>

Spec == Init /\ [][Configure]_vars

(***************************************************************************)
(* The command line is turned into a configuration without a run-time     *)
(* panic whatever permission list a flag or environment variable gives    *)
(* (the command reports bad input through configure's error result).      *)
(***************************************************************************)
NoPanic == ~result.panic
=============================================================================
