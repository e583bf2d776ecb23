------------------------------ MODULE MCAccounts ------------------------------
(* Instances of Accounts for TLC.                                          *)
EXTENDS Accounts, FiniteSetsExt, TLC

CONSTANTS
  MaxChanges,      \* bound: users added, changed and removed
  MaxUnderWay      \* bound: requests between two awaits, and connections

FewChanges ==
  Cardinality(used) - 1 + Cardinality(used \ DOMAIN db)
    + MapThenSumSet(LAMBDA u : db[u].cv, DOMAIN db) <= MaxChanges

FewUnderWay ==
  Cardinality({o \in Op : ops[o] # NoOp}) + Cardinality({l \in Login : logins[l] # NoLogin})
    + Cardinality({c \in Conn : conns[c] # Free}) <= MaxUnderWay

WithinBounds == FewChanges /\ FewUnderWay

(* Requests, users, names and passwords start alike.                       *)
Symmetry == Permutations(Op) \cup Permutations(Conn) \cup Permutations(Id)
            \cup Permutations(Name) \cup Permutations(Serial) \cup Permutations(Password)
==============================================================================
