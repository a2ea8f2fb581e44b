---------------------------- MODULE MCREExecutor ----------------------------
(***************************************************************************)
(* REExecutor on every interval of every text of MaxLen letters.  Tests    *)
(* search for expressions that do not accept the empty word, and searches  *)
(* backwards are made for single expressions, as the tests of the          *)
(* repository make them: what the theorems of REExecutorProofs assume of   *)
(* the calls.  MCBackShared.cfg asks for a conjunction.                    *)
(***************************************************************************)
EXTENDS REExecutor

CONSTANT MaxLen

Letters == {"a", "b"}
MCTexts == [1..MaxLen -> Letters]

Words == UNION {[1..n -> Letters] : n \in 0..MaxLen}
As == {w \in Words \ {<<>>} : \A i \in DOMAIN w : w[i] = "a"}        \* "a"+
AsB == {Append(w, "b") : w \in As \cup {<<>>}}                         \* "a"*"b"
Short == {<<"a">>, <<"b">>, <<"a", "a">>, <<"a", "b">>}
Even == {w \in Words \ {<<>>} : Len(w) \in {2, 4}}
Maybe == {<<>>, <<"b">>}                                               \* "b"?

yes(L) == Check(L, FALSE, FALSE, FALSE)
no(L) == Check(L, TRUE, FALSE, FALSE)
front(L, neg) == Check(L, neg, TRUE, FALSE)
back(L, neg) == Check(L, neg, FALSE, TRUE)

one(k) == SingleComponent(k)
both(k, l) == AllOfComponent(<<k, l>>)
Plain(cc) == [pre |-> NoComponent, re |-> cc, post |-> NoComponent]

Positive == {one(yes(L)) : L \in {As, AsB, Short, Even}}
Shared == {both(yes(As), yes(Even)), both(no({<<"a", "b">>}), yes(Short)), both(yes(AsB), front({<<"a">>}, FALSE)),
           both(back({<<"b">>}, TRUE), yes(Even)),
           AllOfComponent(<<yes(Short), no({<<"a">>}), yes(As \cup AsB), back({<<"a">>}, TRUE)>>)}
Anchors == {one(yes(Maybe)), one(yes(As)), one(no({<<"b">>}))}

Guards == {[pre |-> p, re |-> r, post |-> q] :
              p \in Anchors \cup {NoComponent}, r \in Positive,
              q \in Anchors \cup {NoComponent, both(yes(AsB), no({<<"b">>}))}}
TestedOnly == {Plain(both(no(As), no(Even))), Plain(one(no(Short)))}
              \cup {[pre |-> both(yes(As), no({<<"a">>})), re |-> one(yes(AsB)), post |-> NoComponent]}

MCAsked == [op : Ops, regex : Guards]
           \cup [op : Ops \ BackOps, regex : {Plain(cc) : cc \in Shared}]
           \cup [op : FrontOps, regex : {[Plain(cc) EXCEPT !.post = one(no({<<"b">>}))] : cc \in Shared}]
           \cup [op : {"test"}, regex : TestedOnly]

ASSUME MCAskedAssumption == singlesBackwards(MCAsked) /\ emptyUntested(MCAsked)

-----------------------------------------------------------------------------
(* "a"+ & "aa": the lists of starts, latest first, are merged by <. *)
BackSharedAsked ==
    {[op |-> "matchBack", regex |-> Plain(both(yes(As), yes({<<"a", "a">>})))]}

=============================================================================
