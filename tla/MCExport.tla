------------------------------- MODULE MCExport -------------------------------
(***************************************************************************)
(* Export over stores of five folders and two messages: both commands'     *)
(* forms and the two library calls, contents tables that refuse or are too *)
(* long, messages that do not open or convert, a message that two folders  *)
(* name, a folder that is not walked and lists one that another folder     *)
(* lists too, a name with a slash that looks like a path that was asked    *)
(* for, and files an earlier run left behind; and, over folders without a  *)
(* message, hierarchies of every shape: trees, folders that list           *)
(* themselves, an ancestor or a folder twice, children that do not open, a *)
(* hierarchy table that refuses or has too many rows, trees one level or   *)
(* one folder too large, equal names, empty names and names with slashes.  *)
(***************************************************************************)
EXTENDS Export

CONSTANTS f0, f1, f2, f3, f4, m1, m2, a, b, nel

MCFolders == {f0, f1, f2, f3, f4}
MCMessages == {m1, m2}
MCPieces == {a, b, nel}

Lists(rows) == [kind |-> "rows", rows |-> rows]
Refused == [kind |-> "refused"]

Open(name, hierarchy) == [opens |-> TRUE, name |-> name, hierarchy |-> hierarchy]

Trees ==
    {[f \in MCFolders |->
        CASE f = f0 -> Open(<<a>>, Lists(top))
          [] f = f1 -> Open(one, h1)
          [] f = f2 -> [opens |-> o2[1], name |-> o2[2], hierarchy |-> Lists(<<>>)]
          [] f \in {f3, f4} -> [opens |-> FALSE, name |-> Unreadable, hierarchy |-> Lists(<<>>)]] :
        top \in {<<f1, f2>>, <<f1>>},
        h1 \in {Lists(<<>>), Lists(<<f2>>), Lists(<<f0>>), Lists(<<f2, f3>>)},
        one \in {<<b>>, <<b, a>>}, o2 \in {<<TRUE, <<b>>>>, <<FALSE, <<b>>>>, <<TRUE, <<nel>>>>}}

Contents ==
    {[f \in MCFolders |-> CASE f = f0 -> Lists(c0) [] f = f1 -> c1 [] f = f2 -> Lists(c2)
                           [] f \in {f3, f4} -> Lists(<<>>)] :
        c0 \in {<<>>, <<m1>>},
        c1 \in {Refused, Lists(<<m1, m2>>), Lists(<<m2, m1>>), Lists(<<m1, m2, m1>>)},
        c2 \in {<<>>, <<m2>>}}

Kinds == {[m \in MCMessages |-> IF m = m1 THEN k[1] ELSE k[2]] :
            k \in {<<"good", "good">>, <<"unopenable", "good">>, <<"good", "unconvertible">>,
                   <<"unconvertible", "unopenable">>, <<"good", "raises">>, <<"from abroad", "unconvertible">>}}

Path(names) == [i \in DOMAIN names |-> [text |-> names[i]]]

(* The command or a library call, its format, what it asks for, and what   *)
(* an earlier run left.                                                    *)
Jobs == {<<TRUE, "list", {}, "stale">>,
         <<TRUE, "mbox", {}, "stale">>,
         <<TRUE, "mbox", {Path(<<<<a>>, <<b>>>>)}, "absent">>,
         <<TRUE, "folders", {}, "stale">>,
         <<TRUE, "folders", {Path(<<<<a>>, <<b>>>>)}, "stale">>,
         <<TRUE, "eml", {}, "stale">>,
         <<FALSE, "folders", {}, "stale">>,
         <<FALSE, "eml", {}, "absent">>}

Job(t, from, s, r, c, k, j) ==
    [before |-> j[4], cli |-> j[1], format |-> j[2], wanted |-> j[3], start |-> from, strict |-> s,
     recurse |-> r, contents |-> c, message |-> k, tree |-> t]

-----------------------------------------------------------------------------
(* Hierarchies, walked by a library call that has nothing to write. *)
Tops == {Lists(s) : s \in {<<>>, <<f1>>, <<f0>>, <<f1, f2>>, <<f2, f1>>, <<f1, f1>>,
                           <<f1, f3, f2>>, <<f1, f2, f3, f4>>, <<f1, f2, f3, f4, f4>>}}
        \cup {Refused}
Ones == {Lists(s) : s \in {<<>>, <<f0>>, <<f1>>, <<f3>>, <<f2, f3>>, <<f3, f4>>}} \cup {Refused}
Threes == {Lists(s) : s \in {<<>>, <<f4>>, <<f2>>}}
Fours == {Lists(<<>>), Lists(<<f2>>)}
Names == {<<a>>, <<a, b>>}

Hierarchies ==
    {[f \in MCFolders |->
        CASE f = f0 -> Open(<<a>>, top)
          [] f = f1 -> Open(one, h1)
          [] f = f2 -> [opens |-> o[1], name |-> <<a>>, hierarchy |-> Lists(<<>>)]
          [] f = f3 -> [opens |-> o[2], name |-> <<b>>, hierarchy |-> h3]
          [] f = f4 -> Open(Unreadable, h4)] :
        top \in Tops, h1 \in Ones, h3 \in Threes, h4 \in Fours,
        o \in {<<TRUE, TRUE>>, <<FALSE, TRUE>>, <<TRUE, FALSE>>}, one \in Names}

Nowhere == [f \in MCFolders |-> Lists(<<>>)]
Quiet == [m \in MCMessages |-> "good"]
Walked(trees, from, r) ==
    [before : {"absent"}, cli : {FALSE}, format : {"folders"}, wanted : {{}}, start : {from},
     strict : BOOLEAN, recurse : {r}, contents : {Nowhere}, message : {Quiet}, tree : trees]

Exports == {Job(t, f0, s, TRUE, c, k, j) :
               t \in Trees, s \in BOOLEAN, c \in Contents, k \in Kinds, j \in Jobs}
Walks == Walked(Hierarchies, f0, TRUE)
         \cup Walked({t \in Hierarchies : t[f0].hierarchy = Refused}, f1, FALSE)

MCCalls == Walks \cup Exports

=============================================================================
