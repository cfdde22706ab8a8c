------------------------------ MODULE MCAdmin ------------------------------
(* AdminClient with requests that touch one type with two subtypes as well *)
(* as a whole type, and one of each other kind.  One command line gives a  *)
(* subtype twice, the other one that is named like its type.               *)
EXTENDS AdminClient

Req(cmd, arg) == [cmd |-> cmd, arg |-> arg]

Png == <<"image", "png">>
Gif == <<"image", "gif">>
AllImages == <<"image", AnySub>>
Text == <<"text", "html">>

MCRequests == {Req("forbid", r) : r \in {Png, AllImages, Malformed}}
                \cup {Req("allow", r) : r \in {Png, AllImages}}
                \cup {Req("list", <<>>), Req("set", <<Plain>>),
                      Req("switch", <<>>), Req("metric", <<"current">>), Req("auth", <<"wrong">>),
                      Req("auth", <<"right">>), Req("quit", <<>>)}
Namesake == <<"image", "image">>
MCCommandLines == {<<Text, Png, Png, Gif>>, <<Namesake>>}

FewRequests == {Req("get", <<>>), Req("quit", <<>>)}
NoCommandLine == {<<>>}
=============================================================================
