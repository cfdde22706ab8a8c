----------------------------- MODULE FilterList -----------------------------
(***************************************************************************)
(* filter_list.c: the forbidden media types, a linked list of types, each  *)
(* with a list of subtypes or the mark that all of them are forbidden.     *)
(* Names are compared without regard to case, so a name here stands for    *)
(* all its spellings.  What may run out of memory has a set of outcomes.   *)
(***************************************************************************)
EXTENDS Naturals, SequencesExt

AnySub == "*"

KeepsStar(type, subtype) ==                      \* mutant: "*" kept as a subtype
  [name |-> type, wildcard |-> subtype = AnySub, subs |-> <<subtype>>]
Node(type, subtype) ==
  [name |-> type, wildcard |-> subtype = AnySub,
   subs |-> IF subtype = AnySub THEN <<>> ELSE <<subtype>>]
Childless(type) == [name |-> type, wildcard |-> FALSE, subs |-> <<>>]

\* search_for_type: the first node of that name.
HasType(list, type) == \E i \in 1..Len(list) : list[i].name = type
At(list, type) ==
  CHOOSE i \in 1..Len(list) : /\ list[i].name = type
                              /\ \A j \in 1..(i - 1) : list[j].name # type

\* search_for_subtype
Lists(node, subtype) == Contains(node.subs, subtype)

Done(list)   == [list |-> list, status |-> 0]
Failed(list) == [list |-> list, status |-> -1]

\* forbid_new.  Under a known type it looks for the type among the subtypes,
\* where it means the subtype.  A failed malloc may leave a childless type.
ForbidNew(list, type, subtype) ==
  IF ~HasType(list, type)
  THEN {Done(Append(list, Node(type, subtype))), Failed(list)}
         \cup IF subtype = AnySub THEN {} ELSE {Failed(Append(list, Childless(type)))}
  ELSE LET i == At(list, type) IN
       CASE list[i].wildcard     -> {Done(list)}
         [] ~list[i].wildcard /\ subtype = AnySub
                                 -> {Done([list EXCEPT ![i] = Node(type, AnySub)])}
         [] OTHER -> IF Lists(list[i], type) THEN {Done(list)}
                     ELSE {Done([list EXCEPT ![i].subs = Append(@, subtype)]), Failed(list)}

\* find_mime
FindSubtypeOnly(list, type, subtype) ==           \* mutant: the wildcard forgotten
  HasType(list, type) /\ Lists(list[At(list, type)], subtype)
FindMime(list, type, subtype) ==
  /\ HasType(list, type)
  /\ LET node == list[At(list, type)] IN node.wildcard \/ Lists(node, subtype)

\* allow_type, with completely_allow_type.  Only the first node of a subtype is
\* unlinked.
AllowType(list, type, subtype) ==
  IF ~HasType(list, type) THEN Failed(list)
  ELSE LET i == At(list, type) IN
       IF subtype = AnySub THEN [list |-> RemoveAt(list, i), status |-> 1]
       ELSE IF list[i].wildcard THEN [list |-> list, status |-> -2]
       ELSE IF ~Lists(list[i], subtype) THEN Failed(list)
       ELSE [list |-> [list EXCEPT ![i].subs = RemoveFirst(@, subtype)], status |-> 1]

\* get_forbidden_types, as the set of the pairs it writes down.
GetForbiddenTypes(list) ==
  UNION {{<<list[i].name, s>> :
            s \in ToSet(list[i].subs) \cup IF list[i].wildcard THEN {AnySub} ELSE {}} :
         i \in 1..Len(list)}

\* The pairs among them that stand in the list more than once.
Twice(node, s) == \E i, j \in 1..Len(node.subs) : i # j /\ node.subs[i] = s /\ node.subs[j] = s
Doubled(list) ==
  {r \in GetForbiddenTypes(list) : \E i \in 1..Len(list) : list[i].name = r[1] /\ Twice(list[i], r[2])}
=============================================================================
