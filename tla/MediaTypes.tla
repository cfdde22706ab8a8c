----------------------------- MODULE MediaTypes -----------------------------
(***************************************************************************)
(* What the administrators can rely on of the filter list: a set of        *)
(* forbidden media types, <<type, "*">> standing for every subtype, and    *)
(* what each command on it is told.  Module Admin implements it with the   *)
(* linked lists of filter_list.c.  It is a set with two exceptions, both   *)
(* of filter_list.c:38, where forbid_new looks for the type among the      *)
(* subtypes and means the subtype: the command line may give a rule twice, *)
(* and then ALLOW, though told "ok", need not lift it; and once a type     *)
(* lists a subtype of its own name, FORBID of another subtype is told "ok" *)
(* and adds nothing.  A FORBID never adds a rule twice.                    *)
(***************************************************************************)
EXTENDS Sequences

CONSTANTS Rules  \* the pairs <<type, subtype>> that are ever named

Star == "*"
Whole(r) == <<r[1], Star>>

VARIABLES
  rules,   \* the rules in force
  double,  \* those the list holds more than once
  answers  \* what every command on them has been told, in order

vars == <<rules, double, answers>>

\* Does a set of rules forbid what r names?
Forbids(rs, r) == Whole(r) \in rs \/ r \in rs

\* A rule for a whole type stands alone.
Normal(rs) == \A r \in rs : Whole(r) \in rs => r = Whole(r)

Init == /\ rules \in {rs \in SUBSET Rules : Normal(rs)}
        /\ double \in SUBSET rules
        /\ answers = <<>>

Told(op, r, result) == answers' = Append(answers, [op |-> op, rule |-> r, result |-> result])

\* A command whose result is anything but "ok" changes nothing.
Declined(op, r, result) == Told(op, r, result) /\ UNCHANGED <<rules, double>>

\* The rules of the other types.
Others(rs, r) == {q \in rs : Whole(q) # Whole(r)}

\* The rule of a type that lists itself among its subtypes.
Namesake(r) == <<r[1], r[1]>>

Forbid(r) ==
  \/ Forbids(rules, r) /\ Declined("forbid", r, "already")
  \/ Declined("forbid", r, "error")
  \/ /\ ~Forbids(rules, r) /\ Told("forbid", r, "ok")
     /\ \/ r = Whole(r) /\ rules' = Others(rules, r) \cup {r} /\ double' = Others(double, r)
        \/ /\ r # Whole(r) /\ Namesake(r) \notin rules
           /\ rules' = rules \cup {r} /\ UNCHANGED double
        \/ r # Whole(r) /\ Namesake(r) \in rules /\ UNCHANGED <<rules, double>>

\* A subtype cannot be allowed while its whole type is forbidden.
Allow(r) ==
  \/ ~Forbids(rules, r) /\ Declined("allow", r, "already")
  \/ Whole(r) \in rules /\ r # Whole(r) /\ Declined("allow", r, "wildcard")
  \/ Declined("allow", r, "error")
  \/ /\ Told("allow", r, "ok")
     /\ \/ r = Whole(r) /\ rules' = Others(rules, r) /\ double' = Others(double, r)
        \/ /\ r # Whole(r) /\ r \in rules \ double
           /\ rules' = rules \ {r} /\ UNCHANGED double
        \/ r # Whole(r) /\ r \in double /\ double' \in {double, double \ {r}} /\ UNCHANGED rules

List == Declined("list", <<>>, rules)

Next == List \/ \E r \in Rules : Forbid(r) \/ Allow(r)

Spec == Init /\ [][Next]_vars
=============================================================================
