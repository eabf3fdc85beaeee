----------------------------- MODULE MCBreakpoints -----------------------------
(* Instances of Breakpoints: the chunks of a program and what a user sets.   *)
EXTENDS Breakpoints

Line(l, c, b) == [line |-> l, checks |-> c, bad |-> b]

\* Two files, one of which is loaded under two names that have the same title.
TwoFiles ==
    [a  |-> [path |-> "p1", title |-> "a", source |-> "s1"],
     a2 |-> [path |-> "p1", title |-> "a", source |-> "s1"],
     b  |-> [path |-> "p2", title |-> "b", source |-> "s2"]]

\* "@a.lua" is its own title; "@./a.lua" has the title "a.lua".
TwoTitles ==
    [a  |-> [path |-> "p1", title |-> "@a", source |-> "s1"],
     a2 |-> [path |-> "p1", title |-> "a", source |-> "s1"]]

OneLine == {<<>>, <<Line(1, {}, FALSE)>>}

\* A log message.
Logs == {<<Line(1, {"logMessage"}, FALSE)>>}

\* Breakpoints come and go, change their conditions, and one does not compile.
Edits == {<<>>, <<Line(1, {"condition", "logMessage"}, FALSE)>>,
          <<Line(1, {"condition", "hitCondition"}, FALSE), Line(2, {}, FALSE)>>,
          <<Line(1, {}, TRUE), Line(2, {}, FALSE)>>}
=============================================================================
