---------------------------- MODULE VariablesForm ----------------------------
(***************************************************************************)
(* The form with the variables of a workflow (variables.js), as the page   *)
(* for a new instance shows it (createenv.js): a select for each variable, *)
(* whose options depend on the values of its parents and on the chosen     *)
(* environment configuration, and which the server is asked for whenever   *)
(* one of them changes (GroovyTemplateService.partial).                    *)
(*                                                                         *)
(* The server and the form do not follow the same graph.  A template       *)
(* declares what the options of a variable are computed from, and may      *)
(* disable a variable by looking at others (its links).  The server lists  *)
(* a variable when what it declares is there; the form clears and asks     *)
(* again along both.                                                       *)
(*                                                                         *)
(* An option list is told apart only by what the server computed it from,  *)
(* its context.  Groups, labels, text inputs and the drawing of the form   *)
(* are left out, and so are changes made with the keyboard while the       *)
(* overlay covers the page.  The dialog that runs a workflow with values   *)
(* saved before (env_details.js) is not this page.                         *)
(***************************************************************************)
EXTENDS Naturals, Sequences, FiniteSets, Functions

CONSTANTS
  Vars,       \* the variables of the workflow
  Templates,  \* what the templates say about them, see Template
  Options,    \* the values of every option list, numbers
  Configs,    \* environment configurations
  MaxActs     \* bound: how often the user changes something

Graph == [Vars -> SUBSET Vars]

\* place: where a variable stands in the template; declared: what its options are computed
\* from; links: what its disabled closure looks at; lockable: those that have one; preset:
\* those with a default value of their own; filled: those with options when the form is shown.
Template ==
  [place : [Vars -> Nat], declared : Graph, links : Graph,
   lockable : SUBSET Vars, preset : SUBSET Vars, filled : SUBSET Vars]

ASSUME FormAssumption ==
  /\ IsFiniteSet(Vars) /\ Templates \subseteq Template
  /\ Options \subseteq Nat /\ Options # {} /\ MaxActs \in Nat

VARIABLES
  template,    \* the template of this workflow
  form,        \* the inputs and the requests under way, see below
  config,      \* configurationId
  ready,       \* the button that creates the instance is enabled
  acts

vars == <<template, form, config, ready, acts>>

First == CHOOSE x \in Options : \A y \in Options : x <= y  \* what a select shows by itself

\* Values and option lists are sets of pairs <<variable, ...>>.
Of(pairs, some)      == {p \in pairs : p[1] \in some}
Without(pairs, some) == {p \in pairs : p[1] \notin some}
Has(pairs, v)        == \E p \in pairs : p[1] = v

-----------------------------------------------------------------------------
(* The server. *)

parents(v) == template.declared[v]

\* What the options of v were computed from.
Context(v, values, c) == [parents |-> Of(values, parents(v)), config |-> c]

\* It answers with the variables whose declared parents all have a value.
resolved(values) == {v \in Vars : \A p \in parents(v) : Has(values, p)}

\* It lists them in the order of the template, whatever depends on what.
orders(some) ==
  {order \in Bijection(1 .. Cardinality(some), some) :
     \A i, j \in DOMAIN order : i < j => template.place[order[i]] <= template.place[order[j]]}

-----------------------------------------------------------------------------
(* DependencyGraph. *)

children(t, v) == {w \in Vars : v \in t.declared[w] \cup t.links[w]}

\* What the recursion of allDescendants visits: the least set with the children of v and of
\* its own members.
descendants ==
  [t \in Templates |-> [v \in Vars |->
     {w \in Vars : \A below \in SUBSET Vars :
        /\ children(t, v) \subseteq below
        /\ \A x \in below : children(t, x) \subseteq below
        => w \in below}]]

childrenOf(v)     == children(template, v)
allDescendants(v) == descendants[template][v]

-----------------------------------------------------------------------------
(* The form: a record
     values     the values the selects show
     options    the contexts their options come from
     blank      selects that also offer 'Please select'
     disabled   variables whose select is disabled
     requests   those under way
     overlay    the page is covered
     kept       history: selects with the options that the last answer to a configuration
                left as they were, or that the page was rendered with for other values than
                it shows; until they are cleared or get new ones
     overlapped history: a request was overtaken: when it was under way the user changed
                something, or a default cleared a value that it had been sent with *)

\* _disable, for several selects.
disable(f, selects) ==
  [f EXCEPT !.values = Without(@, selects), !.options = Without(@, selects),
            !.blank = @ \ selects, !.kept = @ \ selects, !.disabled = @ \cup selects]

\* The handler of 'change' that _linkDependencies gives to the variables with children.
changed(f, v) ==
  IF childrenOf(v) = {} THEN f
  ELSE LET below == allDescendants(v)
           g     == disable(f, below)
       IN  [g EXCEPT !.requests   = @ \cup {[of |-> {v}, values |-> g.values, config |-> config]},
                     !.overlay    = TRUE,
                     !.overlapped = @ \/ \E r \in f.requests : Of(r.values, below) # {}]

\* select.val(x)
show(f, v, x) == [f EXCEPT !.values = Without(@, {v}) \cup {<<v, x>>}]

\* _buildOptions appends; a default fires 'change', else the browser shows the first option.
build(f, v, context, hasDefault) ==
  LET g == [f EXCEPT !.options = @ \cup {<<v, context>>}]
  IN  IF hasDefault THEN changed(show(g, v, First), v)
      ELSE IF Has(g.values, v) THEN g ELSE show(g, v, First)

\* _enableChecked: what the server has disabled stays as it is.
enableChecked(f, some, answer) == [f EXCEPT !.disabled = @ \ (some \ answer.locked)]

\* One variable of the answer to a change, a descendant of the changed one: it gets the
\* options that came with it even if it stays disabled.
changeItem(f, r, v, answer) ==
  LET g == enableChecked(f, {v}, answer)
  IN  IF v \in answer.filled
        THEN build(g, v, Context(v, r.values, r.config), v \in answer.defaults)
        ELSE g

\* The answer to a change of r.of, one variable after the other: order lists the
\* descendants.  Of the others nothing but the attribute may change.
changeHandled(f, r, order, answer) ==
  LET upTo[i \in 0 .. Len(order)] ==
        IF i = 0 THEN enableChecked(f, resolved(r.values) \ Range(order), answer)
        ELSE changeItem(upTo[i - 1], r, order[i], answer)
  IN  upTo

changeAnswered(f, r, order, answer) == changeHandled(f, r, order, answer)[Len(order)]

\* The value that a variable was sent with is still an option: it stays; else the browser
\* shows the first option.
rebuilt(f, r, v, valid) ==
  LET g == [f EXCEPT !.options = Without(@, {v}) \cup {<<v, Context(v, r.values, r.config)>>},
                     !.blank = @ \ {v}]
  IN  IF valid THEN [g EXCEPT !.values = Without(@, {v}) \cup Of(r.values, {v})] ELSE show(g, v, First)

\* Variant: descendants that were built before their ancestor lost its value are left alone.
configItemInOrder(a, r, v, conforming) ==
  LET valid   == Has(r.values, v) /\ v \in conforming
      invalid == a.invalid \cup IF valid THEN {} ELSE allDescendants(v)
  IN  [a EXCEPT !.form    = IF v \in invalid THEN disable(@, {v}) ELSE rebuilt(@, r, v, valid),
                !.invalid = invalid]

\* One variable of an answer to _applyResolvedVariables: if its value is no option any more
\* its descendants are invalid; those that were built before it are disabled again, the
\* others when they come.
configItem(a, r, v, conforming) ==
  LET valid   == Has(r.values, v) /\ v \in conforming
      below   == IF valid THEN {} ELSE allDescendants(v)
      invalid == a.invalid \cup below
      g       == disable(a.form, a.done \cap below)
  IN  IF v \in invalid
        THEN [form |-> disable(g, {v}), invalid |-> invalid, done |-> a.done]
        ELSE [form |-> rebuilt(g, r, v, valid), invalid |-> invalid, done |-> a.done \cup {v}]

\* order lists the variables that came with options: those without are not looked at, and
\* the selects of those that did not come at all stay as they are, enabled or not.
configHandled(f, r, order, conforming) ==
  LET upTo[i \in 0 .. Len(order)] ==
        IF i = 0 THEN [form |-> [f EXCEPT !.kept = Vars \ Range(order)], invalid |-> {}, done |-> {}]
        ELSE configItem(upTo[i - 1], r, order[i], conforming)
  IN  upTo

configAnswered(f, r, order, conforming) == configHandled(f, r, order, conforming)[Len(order)].form

-----------------------------------------------------------------------------
\* The server has computed the first option lists from the defaults of the template
\* (workflowDesc): those whose declared parents all have one from these, the others from
\* nothing.  A select that has options shows its default, or 'Please select'; the default
\* of a variable with parents may be known only now.  (createenv.js gives no variableValues,
\* so that render ends here.)
Init ==
  /\ template \in Templates /\ config \in Configs
  /\ LET sent    == template.preset \X {First}
         from(v) == IF v \in resolved(sent) THEN sent ELSE {}
         known   == template.filled \cap template.preset
     IN  \E late \in SUBSET {v \in template.filled : parents(v) # {}}, locked \in SUBSET template.lockable :
           LET values == (known \cup late) \X {First}
           IN  form = [values     |-> values,
                       options    |-> {<<v, Context(v, from(v), config)>> : v \in template.filled},
                       blank      |-> template.filled \ (known \cup late),
                       disabled   |-> locked \cup (Vars \ template.filled),
                       requests   |-> {},
                       overlay    |-> FALSE,
                       kept       |-> {v \in template.filled :
                                         Of(from(v), parents(v)) # Of(values, parents(v))},
                       overlapped |-> FALSE]
  /\ ready = TRUE /\ acts = 0

\* The overlay leaves nothing to click on.
Act ==
  /\ acts < MaxActs /\ acts' = acts + 1
  /\ ~form.overlay

acted == [form EXCEPT !.overlapped = @ \/ form.requests # {}]

\* The user picks another option.
change(v) ==
  /\ Act
  /\ v \notin form.disabled /\ Has(form.options, v)
  /\ \/ \E x \in Options : /\ <<v, x>> \notin form.values
                          /\ form' = changed(show(acted, v, x), v)
     \/ /\ v \in form.blank /\ Has(form.values, v)
        /\ form' = changed([acted EXCEPT !.values = Without(@, {v})], v)
  /\ UNCHANGED <<template, config, ready>>

\* The user picks another environment configuration: disabled inputs are not sent.
updateConfigurationId ==
  /\ Act
  /\ config' \in Configs \ {config}
  /\ LET values == Without(form.values, form.disabled)
     IN  form' = [acted EXCEPT !.requests = @ \cup {[of |-> {}, values |-> values, config |-> config']},
                               !.overlay  = TRUE]
  /\ UNCHANGED <<template, ready>>

\* done, then always: the overlay goes even when a default has just sent a request.
Over(f) == [f EXCEPT !.overlay = FALSE]

Received(r) == [form EXCEPT !.requests = @ \ {r}]

\* The server chooses which variables have options, the defaults, and which are disabled.
changeDone(r) ==
  /\ r.of # {}
  /\ LET listed == resolved(r.values) \cap UNION {allDescendants(v) : v \in r.of}
     IN  \E filled \in SUBSET listed, locked \in SUBSET (template.lockable \cap resolved(r.values)) :
           \E order \in orders(listed), defaults \in SUBSET filled :
             form' = Over(changeAnswered(Received(r), r, order,
                            [filled |-> filled, defaults |-> defaults, locked |-> locked]))
  /\ UNCHANGED ready

\* ... and which of the values that were sent are still among the options.
configDone(r) ==
  /\ r.of = {}
  /\ \E filled \in SUBSET resolved(r.values) :
       \E order \in orders(filled), conforming \in SUBSET {v \in filled : Has(r.values, v)} :
          form' = Over(configAnswered(Received(r), r, order, conforming))
  /\ ready' = TRUE

\* Variant: the overlay goes with an answer only.
failedCovered(r) ==
  /\ form' = Received(r)
  /\ ready' = (ready /\ r.of # {})

\* A failed change is only reported; a failed configuration disables the button.
failed(r) ==
  /\ form' = Over(Received(r))
  /\ ready' = (ready /\ r.of # {})

answer(r) ==
  /\ UNCHANGED <<template, config, acts>>
  /\ failed(r) \/ changeDone(r) \/ configDone(r)

Answers == \E r \in form.requests : answer(r)

Next == (\E v \in Vars : change(v)) \/ updateConfigurationId \/ Answers

Spec == Init /\ [][Next]_vars

\* Every request is answered or times out ($.ajaxSetup).
FairSpec == Spec /\ WF_vars(Answers)

-----------------------------------------------------------------------------
(* Properties. *)

\* What the form offers fits what it shows: when every answer is in, the options of every
\* select, disabled or not, are those for the values of its declared parents and for the
\* configuration, in whatever order the answers came and listed the variables and whichever
\* defaults they set off; as long as no request was overtaken, and but for the selects that
\* the answer to a configuration left alone: it does so with those that have no options now
\* and with those below a disabled one, whose value it was not sent with.
OptionsFit ==
  form.requests = {} /\ ~form.overlapped /\ ready =>
    \A offered \in Without(form.options, form.kept) :
      offered[2] = Context(offered[1], form.values, config)

\* The page is uncovered again: the defaults that one answer sets off end, since each of
\* them asks for fewer variables.
OverlayLifts == form.overlay ~> (~form.overlay /\ form.requests = {})
=============================================================================
