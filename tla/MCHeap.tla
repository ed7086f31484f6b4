-------------------------------- MODULE MCHeap --------------------------------
(***************************************************************************)
(* Heap over nodes of two blocks and up to eight items: BTHs of no to two  *)
(* index levels and one too many, sorted and not, pages that name          *)
(* themselves, an ancestor, one page twice, a freed item, the null HID or  *)
(* a block that is not there, a page map that does not parse, and more     *)
(* items in the blocks together than a heap may count.                     *)
(***************************************************************************)
EXTENDS Heap

CONSTANTS v, w

MCKeys == 1..3
MCValues == {v, w}

No == [kind |-> "refused"]
Rows(s) == [kind |-> "rows", rows |-> s]
Freed == [kind |-> "freed"]
Page(i, l) == [kind |-> "item", header |-> No, index |-> i, leaf |-> l]
HeaderItem(n, h) == [kind |-> "item", header |-> [kind |-> "header", levels |-> n, root |-> h],
                index |-> No, leaf |-> No]
H(b, i) == [block |-> b, index |-> i]
R(k, h) == [key |-> k, child |-> h]
L(k, x) == [key |-> k, value |-> x]

Tops == {HeaderItem(n, h) : n \in {0, 1, 2, 3}, h \in {NullHid, H(0, 2), H(1, 1)}}
        \cup {Page(No, No), Freed}

Seconds == {Page(Rows(i), Rows(<<L(1, v)>>)) :
              i \in {<<R(1, H(0, 3))>>, <<R(1, H(0, 2))>>, <<R(2, H(1, 1))>>,
                     <<R(1, H(0, 3)), R(2, H(1, 1))>>, <<R(3, H(1, 2)), R(1, H(1, 1))>>,
                     <<R(1, H(1, 1)), R(2, H(1, 2))>>, <<R(1, H(1, 1)), R(3, H(1, 1))>>,
                     <<R(1, H(2, 1))>>, <<R(1, NullHid)>>}}

Thirds == {Page(No, Rows(<<L(1, v)>>)), Page(Rows(<<R(1, H(1, 1)), R(2, H(1, 2))>>), No),
           Page(Rows(<<R(1, H(1, 2))>>), Rows(<<L(2, w), L(1, v)>>))}

LeafPage(s) == Page(No, Rows(s))
One == LeafPage(<<L(1, v)>>)
Late == LeafPage(<<L(2, v), L(3, w)>>)
Others == {[kind |-> "bad"]} \cup
          {[kind |-> "map", items |-> s] :
             s \in {<<Late>>, <<Freed>>, <<LeafPage(<<L(1, v), L(1, w)>>), Late>>,
                    <<Page(Rows(<<R(3, H(0, 3))>>), Rows(<<L(2, v)>>)), LeafPage(<<L(3, w)>>)>>,
                    <<Page(Rows(<<R(2, H(1, 3))>>), No), One, Late>>,
                    <<Page(Rows(<<R(2, H(1, 3)), R(3, H(1, 4))>>), No), One, LeafPage(<<L(2, v)>>), Late>>,
                    <<Page(Rows(<<R(3, H(1, 1))>>), No), LeafPage(<<L(1, v), L(2, w), L(3, w)>>), Late,
                      Freed, Freed>>}}

Firsts == {<<t, s, u>> : t \in Tops, s \in Seconds, u \in Thirds}

MCStores == {[blocks |-> <<[kind |-> "map", items |-> f], o>>, top |-> H(0, 1)] :
                f \in Firsts, o \in Others}
    \cup {[blocks |-> <<b>>, top |-> h] :
             b \in {[kind |-> "bad"]} \cup {[kind |-> "map", items |-> <<t, Late, Late>>] : t \in Tops},
             h \in {H(0, 1), H(1, 1), H(0, 0)}}

=============================================================================
