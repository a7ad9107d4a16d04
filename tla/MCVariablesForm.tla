--------------------------- MODULE MCVariablesForm ---------------------------
EXTENDS VariablesForm
MCVars == 1 .. 4
\* Parents before their children, children first, and mixed.
Places == {<<1, 2, 3, 4>>, <<4, 3, 2, 1>>, <<1, 3, 2, 4>>}
None == <<{}, {}, {}, {}>>
\* A diamond below a root with a default, where one side may be disabled.
Diamond(p) ==
  [place |-> p, declared |-> <<{}, {1}, {1}, {2, 3}>>, links |-> None,
   lockable |-> {2}, preset |-> {1}, filled |-> {1}]
\* Two roots with a common child, which may be disabled, and its child: all but the last are
\* shown with options, though only one root has a default.
Roots(p) ==
  [place |-> p, declared |-> <<{}, {}, {1, 2}, {3}>>, links |-> None,
   lockable |-> {3}, preset |-> {1}, filled |-> {1, 2, 3}]
\* The same with both defaults: the child is resolved at once.
Resolved(p) == [Roots(p) EXCEPT !.preset = {1, 2}]
\* Two children of a root, one of which looks at the other and has a child.
Linked(p) ==
  [place |-> p, declared |-> <<{}, {1}, {1}, {3}>>, links |-> <<{}, {}, {2}, {}>>,
   lockable |-> {3}, preset |-> {}, filled |-> {1}]
MCTemplates == UNION {{Diamond(p), Roots(p), Resolved(p), Linked(p)} : p \in Places}
=============================================================================
