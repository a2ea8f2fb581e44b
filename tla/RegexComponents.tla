-------------------------- MODULE RegexComponents --------------------------
(***************************************************************************)
(* What a parsed Regex is made of (src/src/regex/brex.h): a Regex is       *)
(* [rtag, ctag, preanchor, postanchor, re]; a component is NoComponent     *)
(* (nullptr, anchors only), Single(entry) or AllOf(entries).               *)
(***************************************************************************)

NoComponent == [tag |-> "none"]
SingleComponent(entry) == [tag |-> "Single", entry |-> entry]
AllOfComponent(musts) == [tag |-> "AllOf", musts |-> musts]

TopEntry(isNegated, isFrontCheck, isBackCheck, opt) ==
    [isNegated |-> isNegated, isFrontCheck |-> isFrontCheck,
     isBackCheck |-> isBackCheck, opt |-> opt]

entriesOf(cc) ==
    CASE cc.tag = "none" -> <<>>
      [] cc.tag = "Single" -> <<cc.entry>>
      [] cc.tag = "AllOf" -> cc.musts

=============================================================================
