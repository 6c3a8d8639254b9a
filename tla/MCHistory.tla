------------------------------ MODULE MCHistory ------------------------------
(***************************************************************************)
(* Instances of History for TLC: all histories of up to two blocks with    *)
(* every defect the sanitizer repairs, and longer ones, with and without   *)
(* defects, from which compaction can fold something twice.                *)
(***************************************************************************)
EXTENDS History, TLC

CONSTANTS idA, idB

Items(ids) == {[n |-> k, id |-> ids[k]] : k \in DOMAIN ids}

Turn(calls, results, text) ==
  [kind |-> "turn", n |-> 0, calls |-> Items(calls), text |-> text,
   results |-> Items(results)]

Tool(id) == [Plain("tool", 0) EXCEPT !.results = Items(<<id>>)]

CallLists == {<<idA>>, <<idB>>, <<idA, idB>>, <<idA, idA>>, <<NoID>>, <<idA, NoID>>}
ResultLists == {<<>>, <<idA>>, <<idB>>, <<idA, idB>>, <<idA, idA>>, <<NoID>>}

Defective ==
  {Turn(c, r, t) : c \in CallLists, r \in ResultLists, t \in {TRUE}}
    \cup {Turn(c, <<idA>>, FALSE) : c \in CallLists}
    \cup {Tool(id) : id \in {idA, idB, NoID}}
    \cup {Plain("user", 0)}

\* The blocks of the longer defective histories.
Core ==
  {Turn(c, r, TRUE) : c \in {<<idA>>, <<idA, idB>>, <<NoID>>}, r \in {<<>>, <<idA>>, <<idB>>}}
    \cup {Tool(idA), Tool(idB), Plain("user", 0), Plain("text", 0)}

Sound ==
  {Plain("user", 0), Plain("text", 0), Turn(<<idA>>, <<idA>>, TRUE),
   Turn(<<idB>>, <<idB>>, TRUE)}

Numbered(h) == [k \in DOMAIN h |-> [h[k] EXCEPT !.n = k]]

Grouped(h) ==
  \A k \in DOMAIN h : h[k].kind = "tool" /\ k > 1 => h[k - 1].kind # "turn"

Opening == <<Plain("system", 0), Plain("user", 0)>>

MCHistories ==
  {Numbered(h) : h \in {h \in UNION {[1..n -> Defective] : n \in 0..2} : Grouped(h)}}
    \cup {Numbered(Opening \o h \o <<Plain("text", 0)>>) :
            h \in {h \in [1..3 -> Core] : Grouped(h)}}
    \cup {Numbered(<<Plain("system", 0)>> \o h) :
            h \in UNION {[1..n -> Sound] : n \in 4..6}}
=============================================================================
