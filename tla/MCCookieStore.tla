--------------------------- MODULE MCCookieStore ---------------------------
(***************************************************************************)
(* Values for CookieStore: two hosts of one site, a host of another one    *)
(* and a host of a single label; paths of up to one segment.               *)
(***************************************************************************)
EXTENDS CookieStore

Root == [segs |-> <<>>, slash |-> TRUE]
Sub == [segs |-> <<"x">>, slash |-> TRUE]
Page == [segs |-> <<"x">>, slash |-> FALSE]

MCUrls ==
    {[https |-> FALSE, host |-> <<"www", "a", "com">>, path |-> Page],
     [https |-> TRUE, host |-> <<"www", "a", "com">>, path |-> Sub],
     [https |-> FALSE, host |-> <<"a", "com">>, path |-> Root],
     [https |-> FALSE, host |-> <<"b", "com">>, path |-> Root],
     [https |-> FALSE, host |-> <<"com">>, path |-> Root]}

Domain(dot, labels) == [dot |-> dot, labels |-> labels]

MCCookies ==
    [name : {"n"}, value : {1}, secure : BOOLEAN, exp : {1, Session},
     path : {NoAttr, Page},
     domain : {NoAttr, Domain(FALSE, <<"a", "com">>), Domain(TRUE, <<"www", "a", "com">>),
               Domain(TRUE, <<"com">>)}]

\* The second cookie of a list replaces or removes the first one, or joins it.
Plain(value, exp) ==
    [name |-> "n", value |-> value, secure |-> FALSE, exp |-> exp, path |-> NoAttr,
     domain |-> NoAttr]

MCLists == {<<c>> : c \in MCCookies}
           \cup {<<Plain(1, Session), Plain(2, e)>> : e \in {0, 1, Session}}
=============================================================================
