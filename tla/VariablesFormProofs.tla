------------------------- MODULE VariablesFormProofs -------------------------
(***************************************************************************)
(* Proof that the options which the form with dependent variables offers   *)
(* fit the values that it shows, for any template, any answers in any      *)
(* order, whatever the server disables, and any number of changes.         *)
(***************************************************************************)
EXTENDS VariablesForm, FiniteSetTheorems, WellFoundedInduction, TLAPS

-----------------------------------------------------------------------------
(* The shape of the form. *)

Values   == SUBSET (Vars \X Options)
Contexts == [parents : Values, config : Configs]
Requests == [of : SUBSET Vars, values : Values, config : Configs]

Form == [values     : Values,
         options    : SUBSET (Vars \X Contexts),
         blank      : SUBSET Vars,
         disabled   : SUBSET Vars,
         requests   : SUBSET Requests,
         overlay    : BOOLEAN,
         kept       : SUBSET Vars,
         overlapped : BOOLEAN]

TypeOK ==
  /\ template \in Templates /\ config \in Configs /\ form \in Form
  /\ ready \in BOOLEAN /\ acts \in Nat

-----------------------------------------------------------------------------
(* The inductive invariant. *)

\* The options outside some fit the values that the form shows.
FitsExcept(f, some) ==
  \A o \in f.options : o[1] \in f.kept \cup some \/ o[2].parents = Of(f.values, parents(o[1]))

Fits(f) == FitsExcept(f, {})

\* They fit the configuration c.
IsCurrent(f, c) == \A o \in f.options : o[1] \in f.kept \/ o[2].config = c

\* What was cleared when r was sent.
Below(r) == UNION {allDescendants(v) : v \in r.of}

\* If the answer to r can bring options for v, they will be for the values that the form
\* shows still, and bringing them cannot change a value.
OpenAt(f, r, v) ==
  v \in resolved(r.values) =>
    /\ Of(r.values, parents(v)) = Of(f.values, parents(v))
    /\ Of(f.values, {v}) \subseteq {<<v, First>>}

\* Below the changed variable, options have been built again for parents with values only.
Grounded(f, some) == \A o \in f.options : o[1] \in some => \A p \in parents(o[1]) : Has(f.values, p)

\* A change under way.
Pending(f, r) ==
  /\ r.of # {} /\ r.config = config
  /\ Of(r.values, Below(r)) = {}
  /\ \A v \in Below(r) : OpenAt(f, r, v)
  /\ Grounded(f, Below(r))

AllPending(f) == \A r \in f.requests : Pending(f, r)

\* A change of the configuration under way: it is alone.
Configuring(f) ==
  \E r \in f.requests :
    f.requests = {r} /\ r.of = {} /\ r.config = config /\ r.values = Without(f.values, f.disabled)

Sound ==
  /\ Fits(form)
  /\ \/ AllPending(form) /\ (ready => IsCurrent(form, config))
     \/ Configuring(form)

IInv == TypeOK /\ (~form.overlapped => Sound)

-----------------------------------------------------------------------------
(* What the form is built from. *)

\* The descendants of v are the least closed set that has its children.
LEMMA Descendants ==
  ASSUME template \in Templates, NEW v \in Vars
  PROVE  /\ allDescendants(v) \subseteq Vars
         /\ childrenOf(v) \subseteq allDescendants(v)
         /\ \A x \in allDescendants(v) : childrenOf(x) \subseteq allDescendants(v)
         /\ \A some \in SUBSET Vars :
               childrenOf(v) \subseteq some /\ (\A x \in some : childrenOf(x) \subseteq some)
               => allDescendants(v) \subseteq some
<1>1. allDescendants(v) = {w \in Vars : \A below \in SUBSET Vars :
        /\ childrenOf(v) \subseteq below
        /\ \A x \in below : childrenOf(x) \subseteq below
        => w \in below}
  BY DEF allDescendants, descendants, childrenOf
<1>2. \A x : childrenOf(x) \subseteq Vars
  BY DEF childrenOf, children
<1> QED BY <1>1, <1>2

LEMMA Child ==
  ASSUME NEW v, NEW w \in Vars
  PROVE  v \in parents(w) => w \in childrenOf(v)
BY DEF childrenOf, children, parents

\* Below a descendant there are descendants only.
LEMMA Nested ==
  ASSUME template \in Templates, NEW v \in Vars, NEW x \in allDescendants(v)
  PROVE  x \in Vars /\ allDescendants(x) \subseteq allDescendants(v)
<1>1. x \in Vars
  BY Descendants
<1>2. allDescendants(v) \in SUBSET Vars
  BY Descendants
<1>3. childrenOf(x) \subseteq allDescendants(v)
  BY Descendants
<1>4. \A y \in allDescendants(v) : childrenOf(y) \subseteq allDescendants(v)
  BY Descendants
<1> QED BY <1>1, <1>2, <1>3, <1>4, Descendants

\* A variable without children has nothing below it.
LEMMA Childless ==
  ASSUME template \in Templates, NEW v \in Vars, childrenOf(v) = {}
  PROVE  allDescendants(v) = {}
BY Descendants

\* Outside of what is below v, neither v nor a descendant of it is a parent.
LEMMA ParentsOutside ==
  ASSUME template \in Templates, NEW v \in Vars, NEW x \in Vars, x \notin allDescendants(v)
  PROVE  v \notin parents(x) /\ parents(x) \cap allDescendants(v) = {}
<1>1. v \notin parents(x)
  BY Child, Descendants
<1>2. ASSUME NEW y \in allDescendants(v) PROVE y \notin parents(x)
  <2>1. childrenOf(y) \subseteq allDescendants(v)
    BY Descendants
  <2> QED BY <2>1, Child
<1> QED BY <1>1, <1>2

\* What is below a descendant, or has one for a parent, was cleared with it.
LEMMA BelowClosed ==
  ASSUME template \in Templates, NEW r \in Requests
  PROVE  /\ Below(r) \subseteq Vars
         /\ \A x \in Below(r) : allDescendants(x) \subseteq Below(r)
         /\ \A w \in Vars : \A x \in Below(r) : x \in parents(w) => w \in Below(r)
<1>1. r.of \subseteq Vars
  BY DEF Requests
<1>2. Below(r) \subseteq Vars
  BY <1>1, Descendants DEF Below
<1>3. ASSUME NEW x \in Below(r) PROVE allDescendants(x) \subseteq Below(r)
  <2>1. PICK v \in r.of : x \in allDescendants(v)
    BY DEF Below
  <2>2. allDescendants(x) \subseteq allDescendants(v)
    BY <1>1, <2>1, Nested
  <2> QED BY <2>2 DEF Below
<1>4. ASSUME NEW w \in Vars, NEW x \in Below(r), x \in parents(w) PROVE w \in Below(r)
  <2>1. w \in allDescendants(x)
    BY <1>2, <1>4, Child, Descendants
  <2> QED BY <1>3, <2>1
<1> QED BY <1>2, <1>3, <1>4

LEMMA SmallestNumber ==
  ASSUME NEW some, some \subseteq Nat, some # {}
  PROVE  \E m \in some : \A n \in some : m <= n
<1>1. PICK m \in some : \A n \in some : ~ (<<n, m>> \in OpToRel(<, Nat))
  BY NatLessThanWellFounded, WFMin
<1>2. ASSUME NEW n \in some PROVE m <= n
  <2>1. m \in Nat /\ n \in Nat
    OBVIOUS
  <2>2. <<n, m>> \in Nat \X Nat /\ <<n, m>>[1] = n /\ <<n, m>>[2] = m
    BY <2>1
  <2>3. ~ (n < m)
    BY <1>1, <2>2 DEF OpToRel
  <2> QED BY <2>1, <2>3
<1> QED BY <1>2

LEMMA FirstIsOption == First \in Options
BY FormAssumption, SmallestNumber DEF First

\* Whatever is true at the start and handed on from each number to the next is true up to n.
LEMMA UpTo ==
  ASSUME NEW n \in Nat, NEW some, 0 \in some,
         \A i \in 0 .. n : i \in some /\ i < n => i + 1 \in some
  PROVE  0 .. n \subseteq some
<1> DEFINE others == {i \in 0 .. n : i \notin some}
<1>1. CASE others = {}
  BY <1>1
<1>2. CASE others # {}
  <2>1. PICK m \in others : \A i \in others : m <= i
    <3>1. others \subseteq Nat
      OBVIOUS
    <3> HIDE DEF others
    <3> QED BY <1>2, <3>1, SmallestNumber
  <2>2. m - 1 \in 0 .. n /\ m - 1 \notin others /\ m - 1 < n
    BY <2>1
  <2> QED BY <2>1, <2>2
<1> QED BY <1>1, <1>2

\* The states that a start and n steps lead through.
Runs(run, n, start, step) == run[0] = start /\ \A i \in 1 .. n : run[i] = step[<<run[i - 1], i>>]

\* Handling one item after the other comes to an end.
LEMMA RunExists ==
  ASSUME NEW n \in Nat, NEW S, NEW start \in S, NEW step \in [S \X (1 .. n) -> S]
  PROVE  \E run \in [0 .. n -> S] : Runs(run, n, start, step)
<1> DEFINE runsTo(k, run) == Runs(run, k, start, step)
           some == {k \in 0 .. n : \E run \in [0 .. n -> S] : runsTo(k, run)}
<1>1. 0 \in some
  <2> DEFINE still == [i \in 0 .. n |-> start]
  <2>1. still \in [0 .. n -> S] /\ runsTo(0, still)
    BY DEF Runs
  <2> HIDE DEF still, runsTo
  <2> QED BY <2>1
<1>2. ASSUME NEW k \in 0 .. n, k \in some, k < n PROVE k + 1 \in some
  <2>1. PICK run \in [0 .. n -> S] : runsTo(k, run)
    BY <1>2 DEF Runs
  <2> DEFINE next == [run EXCEPT ![k + 1] = step[<<run[k], k + 1>>]]
  <2>2. k + 1 \in 1 .. n /\ run[k] \in S
    BY <1>2
  <2>3. next \in [0 .. n -> S]
    BY <2>2
  <2>4. next[0] = start
    BY <2>1 DEF Runs
  <2>5. ASSUME NEW i \in 1 .. k + 1 PROVE next[i] = step[<<next[i - 1], i>>]
    <3>1. CASE i = k + 1
      <4>1. next[k + 1] = step[<<run[k], k + 1>>] /\ next[k] = run[k]
        BY <2>2
      <4>2. i - 1 = k
        BY <3>1
      <4> HIDE DEF next
      <4> QED BY <3>1, <4>1, <4>2
    <3>2. CASE i # k + 1
      <4>1. i \in 1 .. k /\ i - 1 \in 0 .. n /\ i - 1 # k + 1 /\ i \in 0 .. n
        BY <3>2
      <4>2. next[i] = run[i] /\ next[i - 1] = run[i - 1]
        BY <3>2, <4>1
      <4>3. run[i] = step[<<run[i - 1], i>>]
        BY <2>1, <4>1 DEF Runs
      <4> HIDE DEF next
      <4> QED BY <4>2, <4>3
    <3> QED BY <3>1, <3>2
  <2> HIDE DEF next
  <2>6. runsTo(k + 1, next)
    BY <2>4, <2>5 DEF Runs
  <2> QED BY <1>2, <2>3, <2>6
<1>3. n \in some
  <2> HIDE DEF some
  <2> QED BY <1>1, <1>2, UpTo
<1> QED BY <1>3

-----------------------------------------------------------------------------
(* Pairs. *)

LEMMA OfOne ==
  ASSUME NEW pairs, NEW v
  PROVE  /\ Has(pairs, v) <=> Of(pairs, {v}) # {}
         /\ \A o \in pairs : o[1] = v => o \in Of(pairs, {v})
         /\ Of(pairs, {v}) \subseteq pairs /\ \A o \in Of(pairs, {v}) : o[1] = v
BY DEF Has, Of

\* Leaving some out changes nothing for others.
LEMMA LeftOut ==
  ASSUME NEW pairs, NEW some, NEW others, others \cap some = {}
  PROVE  /\ Of(Without(pairs, some), others) = Of(pairs, others)
         /\ \A x \in others : Has(Without(pairs, some), x) <=> Has(pairs, x)
BY DEF Has, Without, Of

LEMMA SameParents ==
  ASSUME NEW some, NEW pairs, NEW others, Of(pairs, some) = Of(others, some)
  PROVE  \A x \in some : Has(pairs, x) <=> Has(others, x)
BY DEF Has, Of

\* Where each of some has the same values, all of them have.
LEMMA OneByOne ==
  ASSUME NEW some, NEW pairs, NEW others, \A x \in some : Of(pairs, {x}) = Of(others, {x})
  PROVE  Of(pairs, some) = Of(others, some)
<1>1. \A any, y : y \in any <=> y \in Of(any, {y[1]})
  BY DEF Of
<1>2. ASSUME NEW y \in pairs, y[1] \in some PROVE y \in others
  BY <1>1, <1>2
<1>3. ASSUME NEW y \in others, y[1] \in some PROVE y \in pairs
  BY <1>1, <1>3
<1> QED BY <1>2, <1>3 DEF Of

-----------------------------------------------------------------------------
(* The steps that the handlers are built from. *)

LEMMA DisableForm ==
  ASSUME NEW f \in Form, NEW some \in SUBSET Vars
  PROVE  LET g == disable(f, some)
         IN  /\ g \in Form
             /\ g.values = Without(f.values, some) /\ g.options = Without(f.options, some)
             /\ g.kept = f.kept \ some
             /\ g.requests = f.requests /\ g.overlapped = f.overlapped
BY DEF disable, Form, Values, Without

LEMMA ShowForm ==
  ASSUME NEW f \in Form, NEW v \in Vars, NEW x \in Options
  PROVE  LET g == show(f, v, x)
         IN  /\ g \in Form
             /\ g.values = Without(f.values, {v}) \cup {<<v, x>>}
             /\ g.options = f.options /\ g.kept = f.kept
             /\ g.requests = f.requests /\ g.overlapped = f.overlapped
BY DEF show, Form, Values, Without

LEMMA EnableForm ==
  ASSUME NEW f \in Form, NEW some, NEW reply
  PROVE  LET g == enableChecked(f, some, reply)
         IN  /\ g \in Form
             /\ g.values = f.values /\ g.options = f.options /\ g.kept = f.kept
             /\ g.requests = f.requests /\ g.overlapped = f.overlapped
BY DEF enableChecked, Form

LEMMA ContextType ==
  ASSUME NEW v \in Vars, NEW values \in Values, NEW c \in Configs
  PROVE  /\ Context(v, values, c) \in Contexts
         /\ Context(v, values, c).parents = Of(values, parents(v))
         /\ Context(v, values, c).config = c
BY DEF Context, Contexts, Values, Of

\* A change of v clears what is below it and asks for it.
LEMMA ChangedForm ==
  ASSUME template \in Templates, config \in Configs,
         NEW h \in Form, NEW v \in Vars, childrenOf(v) # {}
  PROVE  LET g == changed(h, v)
             D == allDescendants(v)
         IN  /\ g \in Form
             /\ g.values = Without(h.values, D) /\ g.options = Without(h.options, D)
             /\ g.kept = h.kept \ D
             /\ g.requests = h.requests \cup {[of |-> {v}, values |-> g.values, config |-> config]}
             /\ g.overlapped = (h.overlapped \/ \E s \in h.requests : Of(s.values, D) # {})
<1> DEFINE D == allDescendants(v)
           d == disable(h, D)
           r == [of |-> {v}, values |-> d.values, config |-> config]
           overtaken == \E s \in h.requests : Of(s.values, D) # {}
           g == [d EXCEPT !.requests = @ \cup {r}, !.overlay = TRUE, !.overlapped = @ \/ overtaken]
<1>1. D \in SUBSET Vars
  BY Descendants
<1>2. /\ d \in Form
      /\ d.values = Without(h.values, D) /\ d.options = Without(h.options, D)
      /\ d.kept = h.kept \ D
      /\ d.requests = h.requests /\ d.overlapped = h.overlapped
  BY <1>1, DisableForm
<1>3. changed(h, v) = g
  BY DEF changed
<1>4. overtaken \in BOOLEAN
  OBVIOUS
<1> HIDE DEF D, d, overtaken
<1>5. r \in Requests
  BY <1>2 DEF Requests, Form
<1>6. g \in Form /\ g.values = d.values /\ g.options = d.options /\ g.kept = d.kept
      /\ g.requests = d.requests \cup {[of |-> {v}, values |-> d.values, config |-> config]}
      /\ g.overlapped = (d.overlapped \/ overtaken)
  BY <1>2, <1>4, <1>5 DEF Form
<1> HIDE DEF g, r
<1>7. g.requests = h.requests \cup {[of |-> {v}, values |-> g.values, config |-> config]}
  BY <1>2, <1>6
<1>8. g.values = Without(h.values, D) /\ g.options = Without(h.options, D)
      /\ g.kept = h.kept \ D /\ g.overlapped = (h.overlapped \/ overtaken)
  BY <1>2, <1>6
<1> QED BY <1>3, <1>6, <1>7, <1>8 DEF D, overtaken

LEMMA ChangedType ==
  ASSUME template \in Templates, config \in Configs, NEW h \in Form, NEW v \in Vars
  PROVE  changed(h, v) \in Form /\ (~changed(h, v).overlapped => ~h.overlapped)
<1>1. CASE childrenOf(v) = {}
  BY <1>1 DEF changed
<1>2. CASE childrenOf(v) # {}
  <2>1. changed(h, v) \in Form
    BY <1>2, ChangedForm
  <2>2. ~changed(h, v).overlapped => ~h.overlapped
    BY <1>2, ChangedForm
  <2> QED BY <2>1, <2>2
<1> QED BY <1>1, <1>2

-----------------------------------------------------------------------------
(* A request is pending in a form as long as nothing that it counts on changes. *)

\* What the form shows and offers is all that counts.
LEMMA Alike ==
  ASSUME NEW f, NEW g, g.values = f.values, g.options = f.options, g.kept = f.kept
  PROVE  /\ Fits(f) => Fits(g)
         /\ \A c : IsCurrent(f, c) => IsCurrent(g, c)
         /\ \A s : Pending(f, s) => Pending(g, s)
<1>1. Fits(f) => Fits(g)
  BY DEF Fits, FitsExcept
<1>2. \A c : IsCurrent(f, c) => IsCurrent(g, c)
  BY DEF IsCurrent
<1>3. \A s, v : OpenAt(f, s, v) => OpenAt(g, s, v)
  BY DEF OpenAt
<1>4. \A s : Grounded(f, Below(s)) => Grounded(g, Below(s))
  BY DEF Grounded
<1>5. \A s : Pending(f, s) => Pending(g, s)
  BY <1>3, <1>4 DEF Pending
<1> QED BY <1>1, <1>2, <1>5

\* What a change of v makes of h.
ClearedWell(h, g, v) ==
  /\ Fits(g)
  /\ \A c : IsCurrent(h, c) => IsCurrent(g, c)
  /\ \A s : Pending(h, s) /\ Of(s.values, allDescendants(v)) = {} => Pending(g, s)

\* Where everything fits but what is below v, clearing that makes everything fit.
LEMMA Cleared ==
  ASSUME template \in Templates, NEW v \in Vars, NEW h \in Form, NEW g \in Form,
         FitsExcept(h, allDescendants(v)),
         g.values = Without(h.values, allDescendants(v)), g.options = Without(h.options, allDescendants(v)),
         g.kept = h.kept \ allDescendants(v)
  PROVE  ClearedWell(h, g, v)
<1> DEFINE D == allDescendants(v)
<1>1. ASSUME NEW o \in g.options
      PROVE  /\ o \in h.options /\ o[1] \notin D /\ o[1] \in Vars
             /\ parents(o[1]) \cap D = {} /\ (o[1] \in h.kept => o[1] \in g.kept)
  <2>1. o \in h.options /\ o[1] \notin D
    BY DEF Without
  <2>2. o[1] \in Vars
    BY <2>1 DEF Form
  <2> QED BY <2>1, <2>2, ParentsOutside
<1>2. Fits(g)
  <2> SUFFICES ASSUME NEW o \in g.options
               PROVE  o[1] \in g.kept \/ o[2].parents = Of(g.values, parents(o[1]))
    BY DEF Fits, FitsExcept
  <2>1. o[1] \in h.kept \/ o[2].parents = Of(h.values, parents(o[1]))
    BY <1>1 DEF FitsExcept
  <2>2. Of(g.values, parents(o[1])) = Of(h.values, parents(o[1]))
    <3>1. parents(o[1]) \cap D = {}
      BY <1>1
    <3> QED BY <3>1, LeftOut
  <2> QED BY <1>1, <2>1, <2>2
<1>3. ASSUME NEW c, IsCurrent(h, c) PROVE IsCurrent(g, c)
  BY <1>1, <1>3 DEF IsCurrent
<1>4. ASSUME NEW s, Pending(h, s), Of(s.values, D) = {} PROVE Pending(g, s)
  <2>1. ASSUME NEW w \in Below(s), OpenAt(h, s, w), w \in resolved(s.values)
        PROVE  /\ Of(s.values, parents(w)) = Of(g.values, parents(w))
               /\ Of(g.values, {w}) \subseteq {<<w, First>>}
    <3>1. \A p \in parents(w) : Has(s.values, p)
      BY <2>1 DEF resolved
    <3>2. parents(w) \cap D = {}
      BY <1>4, <3>1 DEF Has, Of
    <3>3. Of(g.values, parents(w)) = Of(h.values, parents(w))
      BY <3>2, LeftOut
    <3>4. Of(g.values, {w}) \subseteq Of(h.values, {w})
      BY DEF Of, Without
    <3> QED BY <2>1, <3>3, <3>4 DEF OpenAt
  <2>2. \A w \in Below(s) : OpenAt(g, s, w)
    BY <1>4, <2>1 DEF Pending, OpenAt
  <2>3. Grounded(g, Below(s))
    <3> SUFFICES ASSUME NEW o \in g.options, o[1] \in Below(s), NEW p \in parents(o[1])
                 PROVE  Has(g.values, p)
      BY DEF Grounded
    <3>1. Has(h.values, p)
      BY <1>1, <1>4 DEF Pending, Grounded
    <3>2. parents(o[1]) \cap D = {}
      BY <1>1
    <3> QED BY <3>1, <3>2, LeftOut
  <2> QED BY <1>4, <2>2, <2>3 DEF Pending
<1> QED BY <1>2, <1>3, <1>4 DEF ClearedWell

\* The request of a change counts on what is left.
LEMMA Asked ==
  ASSUME template \in Templates, NEW v \in Vars, NEW h \in Form, NEW g \in Form, NEW s,
         g.values = Without(h.values, allDescendants(v)), g.options = Without(h.options, allDescendants(v)),
         s.of = {v}, s.values = g.values, s.config = config
  PROVE  Pending(g, s)
<1>1. Below(s) = allDescendants(v)
  BY DEF Below
<1>2. Of(g.values, Below(s)) = {}
  BY <1>1 DEF Of, Without
<1>3. \A w \in Below(s) : OpenAt(g, s, w)
  <2>1. \A w \in Below(s) : Of(g.values, {w}) = {}
    BY <1>2 DEF Of
  <2> QED BY <2>1 DEF OpenAt
<1>4. Grounded(g, Below(s))
  BY <1>1 DEF Grounded, Without
<1> QED BY <1>2, <1>3, <1>4 DEF Pending

\* After a change of v, unless it has overtaken a request.
LEMMA Changed ==
  ASSUME template \in Templates, config \in Configs, NEW h \in Form, NEW v \in Vars,
         FitsExcept(h, allDescendants(v)), AllPending(h)
  PROVE  LET g == changed(h, v)
         IN  /\ ClearedWell(h, g, v)
             /\ ~g.overlapped => ~h.overlapped /\ AllPending(g)
<1> DEFINE g == changed(h, v)
           D == allDescendants(v)
<1>1. CASE childrenOf(v) = {}
  <2>1. g = h
    BY <1>1 DEF changed
  <2>2. D = {}
    BY <1>1, Childless
  <2>3. ClearedWell(h, h, v)
    BY <2>2 DEF ClearedWell, Fits
  <2> QED BY <2>1, <2>3
<1>2. CASE childrenOf(v) # {}
  <2>1. /\ g \in Form
        /\ g.values = Without(h.values, D) /\ g.options = Without(h.options, D)
        /\ g.kept = h.kept \ D
        /\ g.requests = h.requests \cup {[of |-> {v}, values |-> g.values, config |-> config]}
        /\ g.overlapped = (h.overlapped \/ \E s \in h.requests : Of(s.values, D) # {})
    BY <1>2, ChangedForm
  <2> HIDE DEF g
  <2>2. ClearedWell(h, g, v)
    BY <2>1, Cleared
  <2>3. ASSUME ~g.overlapped PROVE ~h.overlapped /\ AllPending(g)
    <3>1. ~h.overlapped /\ \A s \in h.requests : Of(s.values, D) = {}
      BY <2>1, <2>3
    <3>2. ASSUME NEW s \in h.requests PROVE Pending(g, s)
      BY <2>2, <3>1 DEF ClearedWell, AllPending
    <3>3. Pending(g, [of |-> {v}, values |-> g.values, config |-> config])
      <4> DEFINE s == [of |-> {v}, values |-> g.values, config |-> config]
      <4>1. s.of = {v} /\ s.values = g.values /\ s.config = config
        OBVIOUS
      <4> HIDE DEF s
      <4>2. Pending(g, s)
        BY <2>1, <4>1, Asked
      <4> QED BY <4>2 DEF s
    <3> QED BY <2>1, <3>1, <3>2, <3>3 DEF AllPending
  <2> QED BY <2>2, <2>3 DEF g
<1> QED BY <1>1, <1>2

\* The answer r has brought options for v, and the select shows the first unless it showed one.
LEMMA Filled ==
  ASSUME template \in Templates, NEW f \in Form, NEW g, NEW r \in Requests,
         NEW v \in Below(r), v \in resolved(r.values), Fits(f), Pending(f, r),
         g.values = f.values \cup {<<v, First>>},
         g.options = f.options \cup {<<v, Context(v, r.values, r.config)>>}, g.kept = f.kept
  PROVE  /\ Fits(g)
         /\ IsCurrent(f, config) => IsCurrent(g, config)
         /\ \A s \in Requests : Pending(f, s) => Pending(g, s)
<1> DEFINE context == Context(v, r.values, r.config)
<1>1. v \in Vars /\ Below(r) \subseteq Vars /\ Of(r.values, Below(r)) = {} /\ r.config = config
      /\ r.values \in Values
  BY BelowClosed DEF Pending, Requests
<1>2. \A p \in parents(v) : Has(r.values, p)
  BY DEF resolved
<1>3. Of(r.values, parents(v)) = Of(f.values, parents(v)) /\ Of(f.values, {v}) \subseteq {<<v, First>>}
  BY DEF Pending, OpenAt
<1>4. \A p \in parents(v) : Has(f.values, p)
  BY <1>2, <1>3, SameParents
<1>5. v \notin parents(v)
  BY <1>1, <1>2 DEF Has, Of
<1>6. context.parents = Of(r.values, parents(v)) /\ context.config = config
  BY <1>1 DEF Context
<1>7. ASSUME NEW some, v \in some => Has(f.values, v) PROVE Of(g.values, some) = Of(f.values, some)
  <2>1. CASE v \in some
    <3>1. <<v, First>> \in f.values
      BY <1>3, <1>7, <2>1, OfOne
    <3> QED BY <3>1
  <2>2. CASE v \notin some
    BY <2>2 DEF Of
  <2> QED BY <2>1, <2>2
<1>8. \A p : Has(f.values, p) => Has(g.values, p)
  BY DEF Has
<1>9. \A o \in g.options : o \in f.options \/ (o[1] = v /\ o[2] = context)
  OBVIOUS
<1> HIDE DEF context
<1>10. Fits(g)
  <2> SUFFICES ASSUME NEW o \in g.options
               PROVE  o[1] \in g.kept \/ o[2].parents = Of(g.values, parents(o[1]))
    BY DEF Fits, FitsExcept
  <2>1. CASE o[1] = v /\ o[2] = context
    BY <1>3, <1>5, <1>6, <1>7, <2>1
  <2>2. CASE o \in f.options
    <3>1. o[1] \in Vars
      BY <2>2 DEF Form
    <3>2. v \in parents(o[1]) => Has(f.values, v)
      <4>1. v \in parents(o[1]) => o[1] \in Below(r)
        BY <3>1, BelowClosed
      <4> QED BY <2>2, <4>1 DEF Pending, Grounded
    <3>3. o[1] \in f.kept \/ o[2].parents = Of(f.values, parents(o[1]))
      BY <2>2 DEF Fits, FitsExcept
    <3> QED BY <1>7, <3>2, <3>3
  <2> QED BY <1>9, <2>1, <2>2
<1>11. ASSUME IsCurrent(f, config) PROVE IsCurrent(g, config)
  BY <1>6, <1>9, <1>11 DEF IsCurrent
<1>12. ASSUME NEW s \in Requests, Pending(f, s) PROVE Pending(g, s)
  <2>1. ASSUME NEW w \in Below(s), w \in resolved(s.values)
        PROVE  /\ Of(s.values, parents(w)) = Of(g.values, parents(w))
               /\ Of(g.values, {w}) \subseteq {<<w, First>>}
    <3>1. Of(s.values, parents(w)) = Of(f.values, parents(w)) /\ Of(f.values, {w}) \subseteq {<<w, First>>}
      BY <1>12, <2>1 DEF Pending, OpenAt
    <3>2. v \in parents(w) => Has(f.values, v)
      <4>1. \A p \in parents(w) : Has(s.values, p)
        BY <2>1 DEF resolved
      <4> QED BY <3>1, <4>1, SameParents
    <3>3. Of(g.values, {w}) \subseteq {<<w, First>>}
      BY <3>1 DEF Of
    <3> QED BY <1>7, <3>1, <3>2, <3>3
  <2>2. \A w \in Below(s) : OpenAt(g, s, w)
    BY <2>1 DEF OpenAt
  <2>3. Grounded(g, Below(s))
    <3> SUFFICES ASSUME NEW o \in g.options, o[1] \in Below(s), NEW p \in parents(o[1])
                 PROVE  Has(g.values, p)
      BY DEF Grounded
    <3>1. CASE o[1] = v
      BY <1>4, <1>8, <3>1
    <3>2. CASE o \in f.options
      BY <1>8, <1>12, <3>2 DEF Pending, Grounded
    <3> QED BY <1>9, <3>1, <3>2
  <2> QED BY <1>12, <2>2, <2>3 DEF Pending
<1> QED BY <1>10, <1>11, <1>12

-----------------------------------------------------------------------------
(* One variable of the answer to a change. *)

\* Between two variables of the answer r, which still counts on what it counted on.
InTurn(f, r) ==
  /\ f \in Form
  /\ ~f.overlapped =>
       /\ Fits(f) /\ (ready => IsCurrent(f, config))
       /\ AllPending(f) /\ Pending(f, r)

\* v with options and the first of them, before its default fires.
FilledFrom(f, r, v, h) ==
  /\ h \in Form
  /\ h.values = f.values \cup {<<v, First>>}
  /\ h.options = f.options \cup {<<v, Context(v, r.values, r.config)>>}
  /\ h.kept = f.kept /\ h.requests = f.requests /\ h.overlapped = f.overlapped

\* Of the values shown only those of v can make a difference.
LEMMA ItemForm ==
  ASSUME template \in Templates, config \in Configs,
         NEW f \in Form, NEW r \in Requests, NEW v \in Vars, NEW reply
  PROVE  LET g == changeItem(f, r, v, reply)
         IN  /\ g \in Form /\ (~g.overlapped => ~f.overlapped)
             /\ v \notin reply.filled =>
                  /\ g.values = f.values /\ g.options = f.options /\ g.kept = f.kept
                  /\ g.requests = f.requests /\ g.overlapped = f.overlapped
             /\ v \in reply.filled /\ Of(f.values, {v}) \subseteq {<<v, First>>} =>
                  \E h \in Form : FilledFrom(f, r, v, h) /\ (g = h \/ g = changed(h, v))
<1> DEFINE a == enableChecked(f, {v}, reply)
           context == Context(v, r.values, r.config)
           b == [a EXCEPT !.options = @ \cup {<<v, context>>}]
           h == show(b, v, First)
           g == changeItem(f, r, v, reply)
<1>1. g = IF v \in reply.filled
            THEN IF v \in reply.defaults THEN changed(h, v) ELSE IF Has(b.values, v) THEN b ELSE h
            ELSE a
  BY DEF changeItem, build
<1>2. /\ a \in Form /\ a.values = f.values /\ a.options = f.options /\ a.kept = f.kept
      /\ a.requests = f.requests /\ a.overlapped = f.overlapped
  BY EnableForm
<1>3. {<<v, context>>} \subseteq Vars \X Contexts
  BY ContextType DEF Requests
<1> HIDE DEF a, context
<1>4. a.options \cup {<<v, context>>} \in SUBSET (Vars \X Contexts)
  BY <1>2, <1>3 DEF Form
<1>5. /\ b \in Form /\ b.values = a.values /\ b.options = a.options \cup {<<v, context>>}
      /\ b.kept = a.kept /\ b.requests = a.requests /\ b.overlapped = a.overlapped
  BY <1>2, <1>4 DEF Form
<1> HIDE DEF b
<1>6. /\ h \in Form /\ h.values = Without(b.values, {v}) \cup {<<v, First>>}
      /\ h.options = b.options /\ h.kept = b.kept /\ h.requests = b.requests
      /\ h.overlapped = b.overlapped
  BY <1>5, ShowForm, FirstIsOption
<1> HIDE DEF h
<1>7. changed(h, v) \in Form /\ (~changed(h, v).overlapped => ~h.overlapped)
  BY <1>6, ChangedType
<1>8. g \in Form /\ (~g.overlapped => ~f.overlapped)
  BY <1>1, <1>2, <1>5, <1>6, <1>7
<1>9. ASSUME v \in reply.filled, Of(f.values, {v}) \subseteq {<<v, First>>}
      PROVE  \E k \in Form : FilledFrom(f, r, v, k) /\ (g = k \/ g = changed(k, v))
  <2>1. Without(f.values, {v}) \cup {<<v, First>>} = f.values \cup {<<v, First>>}
    BY <1>9 DEF Without, Of
  <2>2. FilledFrom(f, r, v, h)
    BY <1>2, <1>5, <1>6, <2>1 DEF FilledFrom, context
  <2>3. ASSUME Has(b.values, v) PROVE FilledFrom(f, r, v, b)
    <3>1. <<v, First>> \in f.values
      BY <1>2, <1>5, <1>9, <2>3, OfOne
    <3>2. f.values = f.values \cup {<<v, First>>}
      BY <3>1
    <3> QED BY <1>2, <1>5, <3>2 DEF FilledFrom, context
  <2>4. g = h \/ g = changed(h, v) \/ (g = b /\ Has(b.values, v))
    BY <1>1, <1>9
  <2> QED BY <1>5, <1>6, <2>2, <2>3, <2>4
<1> QED BY <1>1, <1>2, <1>8, <1>9

LEMMA ItemInTurn ==
  ASSUME template \in Templates, config \in Configs, NEW f, NEW r \in Requests,
         NEW v \in Below(r), v \in resolved(r.values), NEW reply, InTurn(f, r)
  PROVE  InTurn(changeItem(f, r, v, reply), r)
<1> DEFINE g == changeItem(f, r, v, reply)
<1>1. f \in Form /\ v \in Vars
  BY BelowClosed DEF InTurn
<1>2. /\ g \in Form /\ (~g.overlapped => ~f.overlapped)
      /\ v \notin reply.filled =>
           /\ g.values = f.values /\ g.options = f.options /\ g.kept = f.kept
           /\ g.requests = f.requests /\ g.overlapped = f.overlapped
      /\ v \in reply.filled /\ Of(f.values, {v}) \subseteq {<<v, First>>} =>
           \E h \in Form : FilledFrom(f, r, v, h) /\ (g = h \/ g = changed(h, v))
  BY <1>1, ItemForm
<1> HIDE DEF g
<1>4. ASSUME ~g.overlapped
      PROVE  /\ Fits(g) /\ (ready => IsCurrent(g, config))
             /\ AllPending(g) /\ Pending(g, r)
  <2>1. Fits(f) /\ (ready => IsCurrent(f, config)) /\ AllPending(f) /\ Pending(f, r)
    BY <1>2, <1>4 DEF InTurn
  <2>2. CASE v \notin reply.filled
    <3>1. \A s : Pending(f, s) => Pending(g, s)
      BY <1>2, <2>2, Alike
    <3>2. Fits(g) /\ (ready => IsCurrent(g, config))
      BY <1>2, <2>1, <2>2, Alike
    <3> QED BY <1>2, <2>1, <2>2, <3>1, <3>2 DEF AllPending
  <2>3. CASE v \in reply.filled
    <3>1. Of(f.values, {v}) \subseteq {<<v, First>>}
      BY <2>1 DEF Pending, OpenAt
    <3>2. PICK h \in Form : FilledFrom(f, r, v, h) /\ (g = h \/ g = changed(h, v))
      BY <1>2, <2>3, <3>1
    <3>3. /\ Fits(h) /\ (IsCurrent(f, config) => IsCurrent(h, config))
          /\ \A s \in Requests : Pending(f, s) => Pending(h, s)
      BY <1>1, <2>1, <3>2, Filled DEF FilledFrom
    <3>4. Fits(h) /\ (ready => IsCurrent(h, config)) /\ AllPending(h) /\ Pending(h, r)
      <4>1. h.requests = f.requests /\ f.requests \subseteq Requests
        BY <1>1, <3>2 DEF FilledFrom, Form
      <4> QED BY <2>1, <3>3, <4>1 DEF AllPending
    <3>5. CASE g = h
      BY <3>4, <3>5
    <3>6. CASE g = changed(h, v)
      <4>1. FitsExcept(h, allDescendants(v))
        BY <3>4 DEF Fits, FitsExcept
      <4>2. ClearedWell(h, g, v) /\ AllPending(g)
        BY <1>1, <1>4, <3>4, <3>6, <4>1, Changed
      <4>3. Of(r.values, allDescendants(v)) = {}
        <5>1. allDescendants(v) \subseteq Below(r)
          BY BelowClosed
        <5>2. Of(r.values, Below(r)) = {}
          BY <2>1 DEF Pending
        <5> QED BY <5>1, <5>2 DEF Of
      <4> QED BY <3>4, <4>2, <4>3 DEF ClearedWell
    <3> QED BY <3>2, <3>5, <3>6
  <2> QED BY <2>2, <2>3
<1>5. InTurn(g, r)
  BY <1>2, <1>4 DEF InTurn
<1> QED BY <1>5 DEF g

-----------------------------------------------------------------------------
(* The answer to a change, one variable after the other. *)

LEMMA OrderIsSequence ==
  ASSUME NEW n \in Nat, NEW some, NEW order \in [1 .. n -> some]
  PROVE  Len(order) = n /\ Range(order) = {order[i] : i \in 1 .. n}
BY DEF Range

\* An order lists every variable of the answer once.
LEMMA Ordered ==
  ASSUME NEW some \in SUBSET Vars, NEW order \in orders(some)
  PROVE  \E n \in Nat :
           /\ order \in [1 .. n -> Vars]
           /\ \A i, j \in 1 .. n : order[i] = order[j] => i = j
           /\ some = {order[i] : i \in 1 .. n} /\ Range(order) = some /\ Len(order) = n
<1> DEFINE n == Cardinality(some)
<1>1. n \in Nat
  BY FormAssumption, FS_Subset, FS_CardinalityType
<1>2. order \in Bijection(1 .. n, some)
  BY DEF orders
<1> HIDE DEF n
<1>3. order \in [1 .. n -> some] /\ IsInjective(order) /\ \A x \in some : \E i \in 1 .. n : order[i] = x
  BY <1>2 DEF Bijection, Injection, Surjection
<1>4. \A i, j \in 1 .. n : order[i] = order[j] => i = j
  BY <1>3 DEF IsInjective
<1>5. some = {order[i] : i \in 1 .. n}
  BY <1>3
<1>6. Len(order) = n /\ Range(order) = {order[i] : i \in 1 .. n}
  <2>1. order \in [1 .. n -> some]
    BY <1>3
  <2> QED BY ONLY <1>1, <2>1, OrderIsSequence
<1>7. order \in [1 .. n -> Vars]
  BY <1>3
<1> QED BY <1>1, <1>4, <1>5, <1>6, <1>7

\* The function that the answer is computed with is what its equation says.
LEMMA ChangeSteps ==
  ASSUME template \in Templates, config \in Configs,
         NEW f \in Form, NEW r \in Requests, NEW n \in Nat, NEW order \in [1 .. n -> Vars], NEW reply
  PROVE  LET run == changeHandled(f, r, order, reply)
         IN  /\ run[0] = enableChecked(f, resolved(r.values) \ Range(order), reply)
             /\ \A i \in 1 .. n : run[i] = changeItem(run[i - 1], r, order[i], reply)
<1> DEFINE start == enableChecked(f, resolved(r.values) \ Range(order), reply)
           IsRun(u) == u = [i \in 0 .. Len(order) |->
                              IF i = 0 THEN start ELSE changeItem(u[i - 1], r, order[i], reply)]
           step == [x \in Form \X (1 .. n) |-> changeItem(x[1], r, order[x[2]], reply)]
           run == changeHandled(f, r, order, reply)
<1>1. run = CHOOSE u : IsRun(u)
  BY DEF changeHandled
<1>2. start \in Form
  BY EnableForm
<1> HIDE DEF start
<1>3. step \in [Form \X (1 .. n) -> Form]
  <2>1. ASSUME NEW g \in Form, NEW i \in 1 .. n PROVE changeItem(g, r, order[i], reply) \in Form
    BY ItemForm
  <2> QED BY <2>1
<1>4. \A g \in Form, i \in 1 .. n : step[<<g, i>>] = changeItem(g, r, order[i], reply)
  OBVIOUS
<1> HIDE DEF step
<1>5. PICK u \in [0 .. n -> Form] : Runs(u, n, start, step)
  BY <1>2, <1>3, RunExists
<1>6. ASSUME NEW i \in 1 .. n PROVE u[i] = changeItem(u[i - 1], r, order[i], reply)
  <2>1. i - 1 \in 0 .. n
    OBVIOUS
  <2> QED BY <1>4, <1>5, <2>1 DEF Runs
<1>7. Len(order) = n
  BY OrderIsSequence
<1>8. IsRun(u)
  BY <1>5, <1>6, <1>7 DEF Runs
<1>9. IsRun(run)
  <2> HIDE DEF IsRun, run
  <2> QED BY <1>1, <1>8
<1> HIDE DEF run
<1>10. run[0] = start
  BY <1>7, <1>9
<1>11. ASSUME NEW i \in 1 .. n PROVE run[i] = changeItem(run[i - 1], r, order[i], reply)
  BY <1>7, <1>9
<1> QED BY <1>10, <1>11 DEF start, run

\* Whatever is in the answer, in whatever order, the form fits afterwards.
LEMMA ChangeAnswered ==
  ASSUME template \in Templates, config \in Configs, NEW f, NEW r \in Requests,
         NEW some \in SUBSET (resolved(r.values) \cap Below(r)), NEW order \in orders(some), NEW reply,
         InTurn(f, r)
  PROVE  InTurn(changeAnswered(f, r, order, reply), r)
<1>1. some \in SUBSET Vars
  BY DEF resolved
<1>2. PICK n \in Nat :
           /\ order \in [1 .. n -> Vars]
           /\ \A i, j \in 1 .. n : order[i] = order[j] => i = j
           /\ some = {order[i] : i \in 1 .. n} /\ Range(order) = some /\ Len(order) = n
  BY <1>1, Ordered
<1> DEFINE run == changeHandled(f, r, order, reply)
           start == enableChecked(f, resolved(r.values) \ Range(order), reply)
<1>3. f \in Form
  BY DEF InTurn
<1>4. /\ run[0] = start
      /\ \A i \in 1 .. n : run[i] = changeItem(run[i - 1], r, order[i], reply)
  <2>1. n \in Nat /\ order \in [1 .. n -> Vars]
    BY <1>2
  <2> QED BY <1>3, <2>1, ChangeSteps
<1>5. changeAnswered(f, r, order, reply) = run[n]
  BY <1>2 DEF changeAnswered
<1> HIDE DEF run
<1>6. InTurn(start, r)
  <2>1. /\ start \in Form /\ start.values = f.values /\ start.options = f.options
        /\ start.kept = f.kept /\ start.requests = f.requests /\ start.overlapped = f.overlapped
    BY <1>3, EnableForm
  <2> HIDE DEF start
  <2>2. /\ Fits(f) => Fits(start)
        /\ \A c : IsCurrent(f, c) => IsCurrent(start, c)
        /\ \A s : Pending(f, s) => Pending(start, s)
    BY <2>1, Alike
  <2> QED BY <2>1, <2>2 DEF InTurn, AllPending
<1> HIDE DEF start
<1> DEFINE good == {i \in 0 .. n : InTurn(run[i], r)}
<1>7. 0 \in good
  BY <1>4, <1>6
<1>8. ASSUME NEW i \in 0 .. n, i \in good, i < n PROVE i + 1 \in good
  <2>1. i + 1 \in 1 .. n /\ (i + 1) - 1 = i /\ i + 1 \in 0 .. n
    BY <1>8
  <2>2. order[i + 1] \in Below(r) /\ order[i + 1] \in resolved(r.values)
    BY <1>2, <2>1
  <2>3. run[i + 1] = changeItem(run[i], r, order[i + 1], reply)
    BY <1>4, <2>1
  <2>4. InTurn(run[i], r)
    BY <1>8
  <2>5. InTurn(changeItem(run[i], r, order[i + 1], reply), r)
    BY <2>2, <2>4, ItemInTurn
  <2> QED BY <2>1, <2>3, <2>5
<1> HIDE DEF good
<1>9. 0 .. n \subseteq good
  BY <1>7, <1>8, UpTo
<1>10. InTurn(run[n], r)
  BY <1>9 DEF good
<1> QED BY <1>5, <1>10

-----------------------------------------------------------------------------
(* One variable of the answer to a change of the configuration. *)

\* v is in f what it is in g.
SameAt(f, g, v) ==
  /\ Of(g.values, {v}) = Of(f.values, {v}) /\ Of(g.options, {v}) = Of(f.options, {v})
  /\ v \in g.kept <=> v \in f.kept

\* v shows nothing.
NothingAt(f, v) == ~Has(f.values, v) /\ ~Has(f.options, v)

\* v has new options, and its value if that is still among them.
RenewedAt(f, r, valid, v) ==
  /\ Of(f.options, {v}) = {<<v, Context(v, r.values, r.config)>>}
  /\ valid => Of(f.values, {v}) = Of(r.values, {v})

LEMMA SameChain ==
  ASSUME NEW f, NEW g, NEW h, NEW v, SameAt(f, g, v)
  PROVE  /\ SameAt(g, h, v) => SameAt(f, h, v)
         /\ NothingAt(f, v) => NothingAt(g, v)
         /\ \A r, valid : RenewedAt(f, r, valid, v) => RenewedAt(g, r, valid, v)
<1>1. SameAt(g, h, v) => SameAt(f, h, v)
  BY DEF SameAt
<1>2. Has(g.values, v) <=> Has(f.values, v)
  BY OfOne DEF SameAt
<1>3. Has(g.options, v) <=> Has(f.options, v)
  BY OfOne DEF SameAt
<1>4. ASSUME NEW r, NEW valid, RenewedAt(f, r, valid, v) PROVE RenewedAt(g, r, valid, v)
  BY <1>2, <1>4 DEF RenewedAt, SameAt
<1> QED BY <1>1, <1>2, <1>3, <1>4 DEF NothingAt

LEMMA DisabledAt ==
  ASSUME NEW f \in Form, NEW some \in SUBSET Vars, NEW v
  PROVE  /\ v \notin some => SameAt(f, disable(f, some), v)
         /\ v \in some => NothingAt(disable(f, some), v)
<1> DEFINE g == disable(f, some)
<1>1. /\ g.values = Without(f.values, some) /\ g.options = Without(f.options, some)
      /\ g.kept = f.kept \ some
  BY DisableForm
<1> HIDE DEF g
<1>2. ASSUME v \notin some PROVE SameAt(f, g, v)
  <2>1. Of(g.values, {v}) = Of(f.values, {v}) /\ Of(g.options, {v}) = Of(f.options, {v})
    BY <1>1, <1>2 DEF Of, Without
  <2> QED BY <1>1, <1>2, <2>1 DEF SameAt
<1>3. ASSUME v \in some PROVE NothingAt(g, v)
  BY <1>1, <1>3 DEF NothingAt, Has, Without
<1> QED BY <1>2, <1>3 DEF g

LEMMA RebuiltAt ==
  ASSUME NEW f \in Form, NEW r \in Requests, NEW p \in Vars, NEW valid \in BOOLEAN,
         valid => Has(r.values, p)
  PROVE  LET g == rebuilt(f, r, p, valid)
         IN  /\ g \in Form /\ g.requests = f.requests /\ g.overlapped = f.overlapped
             /\ \A v : v # p => SameAt(f, g, v)
             /\ RenewedAt(g, r, valid, p)
<1> DEFINE context == Context(p, r.values, r.config)
           options == Without(f.options, {p}) \cup {<<p, context>>}
           a == [f EXCEPT !.options = Without(@, {p}) \cup {<<p, context>>}, !.blank = @ \ {p}]
           b == [a EXCEPT !.values = Without(@, {p}) \cup Of(r.values, {p})]
           g == rebuilt(f, r, p, valid)
<1>1. context \in Contexts
  BY ContextType DEF Requests
<1>2. g = IF valid THEN b ELSE show(a, p, First)
  BY DEF rebuilt
<1> HIDE DEF context
<1>3. options \in SUBSET (Vars \X Contexts)
  BY <1>1 DEF Form, Without
<1>4. a = [f EXCEPT !.options = options, !.blank = @ \ {p}]
  BY DEF Form
<1>5. /\ \A v : v # p => Of(options, {v}) = Of(f.options, {v})
      /\ Of(options, {p}) = {<<p, context>>}
  BY DEF Of, Without
<1> HIDE DEF options, a
<1>6. /\ a \in Form /\ a.options = options /\ a.kept = f.kept /\ a.values = f.values
      /\ a.requests = f.requests /\ a.overlapped = f.overlapped
  BY <1>3, <1>4 DEF Form
<1>7. Without(a.values, {p}) \cup Of(r.values, {p}) \in Values
  BY <1>6 DEF Form, Values, Without, Of, Requests
<1>8. /\ b \in Form /\ b.options = a.options /\ b.kept = a.kept
      /\ b.values = Without(a.values, {p}) \cup Of(r.values, {p})
      /\ b.requests = a.requests /\ b.overlapped = a.overlapped
  BY <1>6, <1>7 DEF Form
<1> HIDE DEF b
<1> DEFINE c == show(a, p, First)
<1>9. /\ c \in Form /\ c.options = a.options /\ c.kept = a.kept
      /\ c.values = Without(a.values, {p}) \cup {<<p, First>>}
      /\ c.requests = a.requests /\ c.overlapped = a.overlapped
  BY <1>6, ShowForm, FirstIsOption
<1> HIDE DEF c
<1>10. /\ g \in Form /\ g.options = options /\ g.kept = f.kept
       /\ g.requests = f.requests /\ g.overlapped = f.overlapped
       /\ g.values = Without(f.values, {p}) \cup IF valid THEN Of(r.values, {p}) ELSE {<<p, First>>}
  BY <1>2, <1>6, <1>8, <1>9 DEF c
<1> HIDE DEF g
<1>11. /\ \A v : v # p => Of(g.values, {v}) = Of(f.values, {v})
       /\ valid => Of(g.values, {p}) = Of(r.values, {p})
  BY <1>10 DEF Of, Without
<1>12. Has(g.values, p)
  <2>1. valid => Has(Of(r.values, {p}), p)
    BY DEF Has, Of
  <2>2. <<p, First>>[1] = p
    OBVIOUS
  <2> QED BY <1>10, <2>1, <2>2 DEF Has
<1>13. ASSUME NEW v, v # p PROVE SameAt(f, g, v)
  BY <1>5, <1>10, <1>11, <1>13 DEF SameAt
<1>14. RenewedAt(g, r, valid, p)
  BY <1>5, <1>10, <1>11, <1>12 DEF RenewedAt, context
<1> QED BY <1>10, <1>13, <1>14 DEF g

Handling == [form : Form, invalid : SUBSET Vars, done : SUBSET Vars]

\* The answer r after the variables in handled: F is the form that it found.
Partway(F, r, conforming, handled, a) ==
  /\ a \in Handling
  /\ a.form.requests = F.requests /\ a.form.overlapped = F.overlapped
  /\ a.invalid = UNION {allDescendants(v) : v \in handled \ conforming}
  /\ a.done \subseteq handled /\ handled \ a.invalid \subseteq a.done
  /\ \A v \in Vars \ handled : SameAt(F, a.form, v)
  /\ \A v \in handled \cap a.invalid : NothingAt(a.form, v)
  /\ \A v \in handled \ a.invalid : RenewedAt(a.form, r, v \in conforming, v)

\* configItem, case by case.
LEMMA ConfigItem ==
  ASSUME template \in Templates, NEW a \in Handling, NEW r \in Requests, NEW p \in Vars, NEW conforming,
         p \in conforming => Has(r.values, p)
  PROVE  LET below == IF p \in conforming THEN {} ELSE allDescendants(p)
             b     == configItem(a, r, p, conforming)
         IN  /\ b \in Handling /\ b.invalid = a.invalid \cup below
             /\ b.form.requests = a.form.requests /\ b.form.overlapped = a.form.overlapped
             /\ \A v \in Vars \ {p} : v \in a.done \cap below => NothingAt(b.form, v)
             /\ \A v \in Vars \ {p} : v \notin a.done \cap below => SameAt(a.form, b.form, v)
             /\ p \in b.invalid => b.done = a.done /\ NothingAt(b.form, p)
             /\ p \notin b.invalid => /\ b.done = a.done \cup {p}
                                      /\ RenewedAt(b.form, r, p \in conforming, p)
<1> DEFINE below   == IF p \in conforming THEN {} ELSE allDescendants(p)
           invalid == a.invalid \cup below
           some    == a.done \cap below
           g       == disable(a.form, some)
           h       == disable(g, {p})
           valid   == p \in conforming
           k       == rebuilt(g, r, p, valid)
           b       == configItem(a, r, p, conforming)
<1>1. b = IF p \in invalid THEN [form |-> h, invalid |-> invalid, done |-> a.done]
          ELSE [form |-> k, invalid |-> invalid, done |-> a.done \cup {p}]
  <2>1. CASE valid
    <3>1. Has(r.values, p) /\ p \in conforming
      BY <2>1
    <3> QED BY <3>1 DEF configItem
  <2>2. CASE ~valid
    <3>1. ~ (p \in conforming)
      BY <2>2
    <3> QED BY <3>1 DEF configItem
  <2> QED BY <2>1, <2>2
<1>2. a.form \in Form /\ a.invalid \in SUBSET Vars /\ a.done \in SUBSET Vars
  BY DEF Handling
<1>3. below \in SUBSET Vars
  BY Descendants
<1> HIDE DEF below
<1>4. invalid \in SUBSET Vars /\ some \in SUBSET Vars
  BY <1>2, <1>3
<1> HIDE DEF invalid, some
<1>5. g \in Form /\ g.requests = a.form.requests /\ g.overlapped = a.form.overlapped
  BY <1>2, <1>4, DisableForm
<1>6. \A v : (v \notin some => SameAt(a.form, g, v)) /\ (v \in some => NothingAt(g, v))
  BY <1>2, <1>4, DisabledAt
<1> HIDE DEF g
<1>7. h \in Form /\ h.requests = g.requests /\ h.overlapped = g.overlapped
  BY <1>5, DisableForm
<1>8. \A v : (v # p => SameAt(g, h, v)) /\ NothingAt(h, p)
  BY <1>5, DisabledAt
<1>9. valid \in BOOLEAN /\ (valid => Has(r.values, p))
  OBVIOUS
<1>10. valid <=> p \in conforming
  OBVIOUS
<1>11. /\ k \in Form /\ k.requests = g.requests /\ k.overlapped = g.overlapped
       /\ \A v : v # p => SameAt(g, k, v)
       /\ RenewedAt(k, r, valid, p)
  <2> HIDE DEF valid
  <2> QED BY <1>5, <1>9, RebuiltAt
<1>12. RenewedAt(k, r, p \in conforming, p)
  BY <1>11
<1> HIDE DEF h, k, b, valid
<1>13. CASE p \in invalid
  <2>1. b.form = h /\ b.invalid = invalid /\ b.done = a.done /\ b \in Handling
    BY <1>1, <1>2, <1>4, <1>7, <1>13 DEF Handling
  <2>2. \A v \in Vars \ {p} : v \in some => NothingAt(h, v)
    BY <1>6, <1>8, SameChain
  <2>3. \A v \in Vars \ {p} : v \notin some => SameAt(a.form, h, v)
    BY <1>6, <1>8, SameChain
  <2>4. NothingAt(h, p)
    BY <1>8
  <2> QED BY <1>5, <1>7, <1>13, <2>1, <2>2, <2>3, <2>4 DEF b, invalid, some, below
<1>14. CASE p \notin invalid
  <2>1. b.form = k /\ b.invalid = invalid /\ b.done = a.done \cup {p} /\ b \in Handling
    BY <1>1, <1>2, <1>4, <1>11, <1>14 DEF Handling
  <2>2. \A v \in Vars \ {p} : v \in some => NothingAt(k, v)
    BY <1>6, <1>11, SameChain
  <2>3. \A v \in Vars \ {p} : v \notin some => SameAt(a.form, k, v)
    BY <1>6, <1>11, SameChain
  <2> QED BY <1>5, <1>11, <1>12, <1>14, <2>1, <2>2, <2>3 DEF b, invalid, some, below
<1> QED BY <1>13, <1>14

LEMMA PartwayStep ==
  ASSUME template \in Templates, NEW F \in Form, NEW r \in Requests, NEW conforming,
         \A v \in conforming : Has(r.values, v),
         NEW handled \in SUBSET Vars, NEW p \in Vars \ handled, NEW a, Partway(F, r, conforming, handled, a)
  PROVE  Partway(F, r, conforming, handled \cup {p}, configItem(a, r, p, conforming))
<1> DEFINE below == IF p \in conforming THEN {} ELSE allDescendants(p)
           b     == configItem(a, r, p, conforming)
           more  == handled \cup {p}
<1>1. /\ a \in Handling
      /\ a.form.requests = F.requests /\ a.form.overlapped = F.overlapped
      /\ a.invalid = UNION {allDescendants(v) : v \in handled \ conforming}
      /\ a.done \subseteq handled /\ handled \ a.invalid \subseteq a.done
  BY DEF Partway
<1>2. /\ \A v \in Vars \ handled : SameAt(F, a.form, v)
      /\ \A v \in handled \cap a.invalid : NothingAt(a.form, v)
      /\ \A v \in handled \ a.invalid : RenewedAt(a.form, r, v \in conforming, v)
  BY DEF Partway
<1>3. /\ b \in Handling /\ b.invalid = a.invalid \cup below
      /\ b.form.requests = a.form.requests /\ b.form.overlapped = a.form.overlapped
      /\ \A v \in Vars \ {p} : v \in a.done \cap below => NothingAt(b.form, v)
      /\ \A v \in Vars \ {p} : v \notin a.done \cap below => SameAt(a.form, b.form, v)
      /\ p \in b.invalid => b.done = a.done /\ NothingAt(b.form, p)
      /\ p \notin b.invalid => /\ b.done = a.done \cup {p}
                               /\ RenewedAt(b.form, r, p \in conforming, p)
  BY <1>1, ConfigItem
<1> HIDE DEF b
<1>4. b.invalid = UNION {allDescendants(v) : v \in more \ conforming}
  BY <1>1, <1>3
<1> HIDE DEF below
<1>5. b.done \subseteq more /\ more \ b.invalid \subseteq b.done
  BY <1>1, <1>3
<1>6. ASSUME NEW v \in Vars \ more PROVE SameAt(F, b.form, v)
  <2>1. SameAt(F, a.form, v) /\ SameAt(a.form, b.form, v)
    BY <1>1, <1>2, <1>3
  <2> QED BY <2>1, SameChain
<1>7. ASSUME NEW v \in more \cap b.invalid PROVE NothingAt(b.form, v)
  <2>1. CASE v = p
    BY <1>3, <2>1
  <2>2. CASE v # p /\ v \in a.done \cap below
    BY <1>3, <2>2
  <2>3. CASE v # p /\ v \notin a.done \cap below
    <3>1. v \in handled \cap a.invalid
      BY <1>1, <1>3, <2>3
    <3>2. NothingAt(a.form, v) /\ SameAt(a.form, b.form, v)
      BY <1>2, <1>3, <2>3, <3>1
    <3> QED BY <3>2, SameChain
  <2> QED BY <2>1, <2>2, <2>3
<1>8. ASSUME NEW v \in more \ b.invalid PROVE RenewedAt(b.form, r, v \in conforming, v)
  <2>1. CASE v = p
    BY <1>3, <2>1
  <2>2. CASE v # p
    <3>1. v \in handled \ a.invalid /\ v \notin below
      BY <1>3, <2>2
    <3>2. SameAt(a.form, b.form, v) /\ RenewedAt(a.form, r, v \in conforming, v)
      BY <1>2, <1>3, <2>2, <3>1
    <3> QED BY <3>2, SameChain
  <2> QED BY <2>1, <2>2
<1>9. b.form.requests = F.requests /\ b.form.overlapped = F.overlapped
  BY <1>1, <1>3
<1> HIDE DEF more
<1>10. Partway(F, r, conforming, more, b)
  BY <1>3, <1>4, <1>5, <1>6, <1>7, <1>8, <1>9 DEF Partway
<1> QED BY <1>10 DEF b, more

\* The function that the answer is computed with is what its equation says.
LEMMA ConfigSteps ==
  ASSUME template \in Templates,
         NEW f \in Form, NEW r \in Requests, NEW n \in Nat, NEW order \in [1 .. n -> Vars],
         NEW conforming, \A v \in conforming : Has(r.values, v)
  PROVE  LET run == configHandled(f, r, order, conforming)
         IN  /\ run[0] = [form |-> [f EXCEPT !.kept = Vars \ Range(order)], invalid |-> {}, done |-> {}]
             /\ \A i \in 1 .. n : run[i] = configItem(run[i - 1], r, order[i], conforming)
<1> DEFINE start == [form |-> [f EXCEPT !.kept = Vars \ Range(order)], invalid |-> {}, done |-> {}]
           IsRun(u) == u = [i \in 0 .. Len(order) |->
                              IF i = 0 THEN start ELSE configItem(u[i - 1], r, order[i], conforming)]
           step == [x \in Handling \X (1 .. n) |-> configItem(x[1], r, order[x[2]], conforming)]
           run == configHandled(f, r, order, conforming)
<1>1. run = CHOOSE u : IsRun(u)
  BY DEF configHandled
<1>2. start \in Handling
  BY DEF Form, Handling
<1> HIDE DEF start
<1>3. step \in [Handling \X (1 .. n) -> Handling]
  <2>1. ASSUME NEW a \in Handling, NEW p \in Vars PROVE configItem(a, r, p, conforming) \in Handling
    BY ConfigItem
  <2> QED BY <2>1
<1>4. \A a \in Handling, i \in 1 .. n : step[<<a, i>>] = configItem(a, r, order[i], conforming)
  OBVIOUS
<1> HIDE DEF step
<1>5. PICK u \in [0 .. n -> Handling] : Runs(u, n, start, step)
  BY <1>2, <1>3, RunExists
<1>6. ASSUME NEW i \in 1 .. n PROVE u[i] = configItem(u[i - 1], r, order[i], conforming)
  <2>1. i - 1 \in 0 .. n
    OBVIOUS
  <2> QED BY <1>4, <1>5, <2>1 DEF Runs
<1>7. Len(order) = n
  BY OrderIsSequence
<1>8. IsRun(u)
  BY <1>5, <1>6, <1>7 DEF Runs
<1>9. IsRun(run)
  <2> HIDE DEF IsRun, run
  <2> QED BY <1>1, <1>8
<1> HIDE DEF run
<1>10. run[0] = start
  BY <1>7, <1>9
<1>11. ASSUME NEW i \in 1 .. n PROVE run[i] = configItem(run[i - 1], r, order[i], conforming)
  BY <1>7, <1>9
<1> QED BY <1>10, <1>11 DEF start, run

-----------------------------------------------------------------------------
(* The answer to a change of the configuration. *)

\* All the variables that have options are handled.
LEMMA ConfigHandled ==
  ASSUME template \in Templates, NEW f \in Form, NEW r \in Requests,
         NEW some \in SUBSET Vars, NEW order \in orders(some),
         NEW conforming, \A v \in conforming : Has(r.values, v)
  PROVE  Partway([f EXCEPT !.kept = Vars \ Range(order)], r, conforming, some,
                 configHandled(f, r, order, conforming)[Len(order)])
<1>1. PICK n \in Nat :
           /\ order \in [1 .. n -> Vars]
           /\ \A i, j \in 1 .. n : order[i] = order[j] => i = j
           /\ some = {order[i] : i \in 1 .. n} /\ Range(order) = some /\ Len(order) = n
  BY Ordered
<1> DEFINE F   == [f EXCEPT !.kept = Vars \ Range(order)]
           run == configHandled(f, r, order, conforming)
           upTo(i) == {order[j] : j \in 1 .. i}
           good == {i \in 0 .. n : Partway(F, r, conforming, upTo(i), run[i])}
<1>2. /\ run[0] = [form |-> F, invalid |-> {}, done |-> {}]
      /\ \A i \in 1 .. n : run[i] = configItem(run[i - 1], r, order[i], conforming)
  BY <1>1, ConfigSteps
<1> HIDE DEF run
<1>3. F \in Form
  BY DEF Form
<1> HIDE DEF F
<1>4. 0 \in good
  <2>1. upTo(0) = {}
    OBVIOUS
  <2>2. /\ run[0] \in Handling /\ run[0].form = F /\ run[0].invalid = {} /\ run[0].done = {}
    BY <1>2, <1>3 DEF Handling
  <2>3. \A v : SameAt(F, F, v)
    BY DEF SameAt
  <2>4. Partway(F, r, conforming, {}, run[0])
    BY <2>2, <2>3 DEF Partway
  <2> QED BY <2>1, <2>4
<1>5. ASSUME NEW i \in 0 .. n, i \in good, i < n PROVE i + 1 \in good
  <2>1. i + 1 \in 1 .. n /\ (i + 1) - 1 = i /\ i + 1 \in 0 .. n
    BY <1>5
  <2>2. order[i + 1] \in Vars /\ order[i + 1] \notin upTo(i)
    BY <1>1, <2>1
  <2>3. upTo(i) \in SUBSET Vars
    BY <1>1
  <2>4. upTo(i + 1) = upTo(i) \cup {order[i + 1]}
    <3>1. \A j : j \in 1 .. i + 1 <=> j \in 1 .. i \/ j = i + 1
      OBVIOUS
    <3> QED BY <3>1
  <2>5. Partway(F, r, conforming, upTo(i), run[i])
    BY <1>5
  <2> HIDE DEF upTo
  <2>6. Partway(F, r, conforming, upTo(i) \cup {order[i + 1]}, configItem(run[i], r, order[i + 1], conforming))
    BY <1>3, <2>2, <2>3, <2>5, PartwayStep
  <2>7. run[i + 1] = configItem(run[i], r, order[i + 1], conforming)
    BY <1>2, <2>1
  <2> QED BY <2>1, <2>4, <2>6, <2>7
<1>6. n \in good
  <2> HIDE DEF good
  <2>1. 0 .. n \subseteq good
    BY <1>4, <1>5, UpTo
  <2> QED BY <2>1
<1>7. upTo(n) = some
  BY <1>1
<1> HIDE DEF upTo
<1>8. Partway(F, r, conforming, some, run[n])
  BY <1>6, <1>7
<1> QED BY <1>1, <1>8 DEF F, run

\* Afterwards everything fits the values, and the configuration as well.
LEMMA Reconfigured ==
  ASSUME template \in Templates, NEW f \in Form, NEW r \in Requests, NEW conforming,
         NEW some \in SUBSET resolved(r.values), NEW F, NEW a, NEW g,
         r.values = Without(f.values, f.disabled), r.config = config,
         F = [f EXCEPT !.kept = Vars \ some], Partway(F, r, conforming, some, a), g = a.form
  PROVE  Fits(g) /\ IsCurrent(g, config)
<1>1. F.values = f.values /\ F.kept = Vars \ some
  BY DEF Form
<1>2. /\ a \in Handling /\ a.invalid = UNION {allDescendants(v) : v \in some \ conforming}
      /\ \A v \in Vars \ some : SameAt(F, g, v)
      /\ \A v \in some \cap a.invalid : NothingAt(g, v)
      /\ \A v \in some \ a.invalid : RenewedAt(g, r, v \in conforming, v)
  BY DEF Partway
<1>3. some \subseteq Vars /\ \A v \in some : \A p \in parents(v) : Has(r.values, p)
  BY DEF resolved
<1>4. g \in Form /\ r.values \in Values
  BY <1>2 DEF Handling, Requests
\* What is below an invalid variable is invalid.
<1>5. ASSUME NEW p \in a.invalid, NEW v \in Vars, p \in parents(v) PROVE v \in a.invalid
  <2>1. PICK w \in some \ conforming : p \in allDescendants(w)
    BY <1>2
  <2>2. childrenOf(p) \subseteq allDescendants(w)
    BY <1>3, <2>1, Descendants
  <2> QED BY <1>2, <1>5, <2>1, <2>2, Child
\* A parent of a variable with new options shows what it was sent with.
<1>6. ASSUME NEW v \in some \ a.invalid, NEW p \in parents(v)
      PROVE  Of(g.values, {p}) = Of(r.values, {p})
  <2>1. p \in Vars
    BY <1>3, <1>4 DEF Has, Values
  <2>2. CASE p \in some
    <3>1. p \notin a.invalid
      BY <1>3, <1>5, <1>6
    <3>2. p \in conforming
      <4>1. v \in allDescendants(p)
        BY <1>3, <1>6, <2>1, Child, Descendants
      <4> QED BY <1>2, <1>6, <2>2, <4>1
    <3> QED BY <1>2, <2>2, <3>1, <3>2 DEF RenewedAt
  <2>3. CASE p \notin some
    <3>1. Of(g.values, {p}) = Of(f.values, {p})
      BY <1>1, <1>2, <2>1, <2>3 DEF SameAt
    <3>2. p \notin f.disabled
      BY <1>3, <1>6 DEF Has, Without
    <3>3. Of(r.values, {p}) = Of(f.values, {p})
      BY <3>2, LeftOut
    <3> QED BY <3>1, <3>3
  <2> QED BY <2>2, <2>3
<1>7. ASSUME NEW o \in g.options, o[1] \notin g.kept
      PROVE  o[2].parents = Of(g.values, parents(o[1])) /\ o[2].config = config
  <2>1. o[1] \in Vars
    BY <1>4 DEF Form
  <2>2. o[1] \in some
    BY <1>1, <1>2, <1>7, <2>1 DEF SameAt
  <2>3. o[1] \notin a.invalid
    BY <1>2, <2>2 DEF NothingAt, Has
  <2>4. o[2] = Context(o[1], r.values, r.config)
    <3>1. Of(g.options, {o[1]}) = {<<o[1], Context(o[1], r.values, r.config)>>}
      BY <1>2, <2>2, <2>3 DEF RenewedAt
    <3>2. o = <<o[1], Context(o[1], r.values, r.config)>>
      BY <3>1, OfOne
    <3> QED BY <3>2
  <2>5. o[2].parents = Of(r.values, parents(o[1])) /\ o[2].config = config
    BY <2>4 DEF Context
  <2>6. Of(g.values, parents(o[1])) = Of(r.values, parents(o[1]))
    <3>1. \A p \in parents(o[1]) : Of(g.values, {p}) = Of(r.values, {p})
      BY <1>6, <2>2, <2>3
    <3> QED BY <3>1, OneByOne
  <2> QED BY <2>5, <2>6
<1> QED BY <1>7 DEF Fits, FitsExcept, IsCurrent

-----------------------------------------------------------------------------
(* The steps of the form. *)

\* What the invariant says of a form is true of it after a step that leaves the rest alone.
LEMMA CarriedFits ==
  ASSUME template' = template, NEW f, form' = f, Fits(f)
  PROVE  Fits(form)'
BY DEF Fits, FitsExcept, Of, parents

LEMMA Carried ==
  ASSUME template' = template, config' = config, NEW f, form' = f,
         Fits(f), AllPending(f), ready' => IsCurrent(f, config)
  PROVE  Sound'
<1>1. Fits(form)'
  BY CarriedFits
<1>2. ready' => IsCurrent(form, config)'
  BY DEF IsCurrent
<1>3. ASSUME NEW r PROVE Below(r)' = Below(r)
  BY DEF Below, allDescendants
<1>4. ASSUME NEW r, NEW v PROVE OpenAt(form, r, v)' <=> OpenAt(f, r, v)
  BY DEF OpenAt, resolved, Of, Has, parents
<1>5. ASSUME NEW r PROVE Grounded(form, Below(r))' <=> Grounded(f, Below(r))
  BY <1>3 DEF Grounded, Has, parents
<1>6. ASSUME NEW r PROVE Pending(form, r)' <=> Pending(f, r)
  BY <1>3, <1>4, <1>5 DEF Pending, Of
<1>7. AllPending(form)'
  BY <1>6 DEF AllPending
<1> QED BY <1>1, <1>2, <1>7 DEF Sound

LEMMA OverForm ==
  ASSUME NEW f \in Form
  PROVE  LET g == Over(f)
         IN  /\ g \in Form /\ g.values = f.values /\ g.options = f.options /\ g.kept = f.kept
             /\ g.requests = f.requests /\ g.overlapped = f.overlapped
BY DEF Over, Form

LEMMA ReceivedForm ==
  ASSUME form \in Form, NEW r
  PROVE  LET g == Received(r)
         IN  /\ g \in Form /\ g.values = form.values /\ g.options = form.options
             /\ g.kept = form.kept /\ g.disabled = form.disabled
             /\ g.requests = form.requests \ {r} /\ g.overlapped = form.overlapped
BY DEF Received, Form

LEMMA ActedForm ==
  ASSUME form \in Form
  PROVE  /\ acted \in Form /\ acted.values = form.values /\ acted.options = form.options
         /\ acted.kept = form.kept /\ acted.disabled = form.disabled
         /\ acted.requests = form.requests
         /\ acted.overlapped = (form.overlapped \/ form.requests # {})
BY DEF acted, Form

LEMMA InitIsSound == Init => IInv
<1> SUFFICES ASSUME Init PROVE IInv
  OBVIOUS
<1> DEFINE sent == template.preset \X {First}
           from(v) == IF v \in resolved(sent) THEN sent ELSE {}
           known == template.filled \cap template.preset
           offered == {<<v, Context(v, from(v), config)>> : v \in template.filled}
<1>1. template \in Templates /\ config \in Configs /\ ready = TRUE /\ acts = 0
  BY DEF Init
<1>2. PICK late \in SUBSET {v \in template.filled : parents(v) # {}},
           locked \in SUBSET template.lockable :
        form = [values     |-> (known \cup late) \X {First},
                options    |-> offered,
                blank      |-> template.filled \ (known \cup late),
                disabled   |-> locked \cup (Vars \ template.filled),
                requests   |-> {},
                overlay    |-> FALSE,
                kept       |-> {v \in template.filled :
                                  Of(from(v), parents(v)) # Of((known \cup late) \X {First}, parents(v))},
                overlapped |-> FALSE]
  BY DEF Init
<1>3. template.preset \subseteq Vars /\ template.filled \subseteq Vars /\ template.lockable \subseteq Vars
  BY <1>1, FormAssumption DEF Template
<1>4. sent \in Values /\ {} \in Values
  BY <1>3, FirstIsOption DEF Values
<1> HIDE DEF sent
<1>5. \A v : from(v) \in Values
  BY <1>4
<1> HIDE DEF from
<1>6. ASSUME NEW o \in offered
      PROVE  /\ o[1] \in template.filled /\ o \in Vars \X Contexts
             /\ o[2].parents = Of(from(o[1]), parents(o[1])) /\ o[2].config = config
  <2>1. PICK v \in template.filled : o = <<v, Context(v, from(v), config)>>
    OBVIOUS
  <2>2. /\ Context(v, from(v), config) \in Contexts
        /\ Context(v, from(v), config).parents = Of(from(v), parents(v))
        /\ Context(v, from(v), config).config = config
    BY <1>1, <1>3, <1>5, ContextType
  <2> QED BY <1>3, <2>1, <2>2
<1>7. offered \subseteq Vars \X Contexts
  BY <1>6
<1> DEFINE values == (known \cup late) \X {First}
<1>8. values \in Values
  BY <1>3, FirstIsOption DEF Values
<1> DEFINE kept == {v \in template.filled : Of(from(v), parents(v)) # Of(values, parents(v))}
           disabled == locked \cup (Vars \ template.filled)
           blank == template.filled \ (known \cup late)
<1>9. kept \in SUBSET Vars /\ disabled \in SUBSET Vars /\ blank \in SUBSET Vars
  BY <1>3
<1>10. \A o \in offered : o[1] \in kept \/ o[2].parents = Of(values, parents(o[1]))
  <2> HIDE DEF offered, values
  <2> QED BY <1>6
<1> HIDE DEF values, kept, disabled, blank, offered
<1>11. form = [values |-> values, options |-> offered, blank |-> blank, disabled |-> disabled,
               requests |-> {}, overlay |-> FALSE, kept |-> kept, overlapped |-> FALSE]
  BY <1>2 DEF values, kept, disabled, blank
<1>12. form \in Form
  BY <1>7, <1>8, <1>9, <1>11 DEF Form
<1>13. Fits(form)
  BY <1>10, <1>11 DEF Fits, FitsExcept
<1>14. IsCurrent(form, config)
  BY <1>6, <1>11 DEF IsCurrent
<1>15. AllPending(form)
  BY <1>11 DEF AllPending
<1> QED BY <1>1, <1>12, <1>13, <1>14, <1>15 DEF IInv, TypeOK, Sound

\* Without a request under way the form is as it should be.
LEMMA AtRest ==
  ASSUME IInv, ~form.overlapped, form.requests = {}
  PROVE  Fits(form) /\ (ready => IsCurrent(form, config))
BY DEF IInv, Sound, Configuring

\* A change by the user, whichever value the select shows then.
LEMMA UserChange ==
  ASSUME IInv, NEW v \in Vars, NEW h \in Form,
         h.options = form.options, h.kept = form.kept, h.requests = form.requests,
         h.overlapped = (form.overlapped \/ form.requests # {}),
         \A some : v \notin some => Of(h.values, some) = Of(form.values, some),
         form' = changed(h, v), UNCHANGED <<template, config, ready>>, acts' \in Nat
  PROVE  IInv'
<1> DEFINE D == allDescendants(v)
           g == changed(h, v)
<1>1. /\ template \in Templates /\ config \in Configs /\ form \in Form /\ ready \in BOOLEAN
  BY DEF IInv, TypeOK
<1>2. g \in Form /\ (~g.overlapped => ~h.overlapped)
  BY <1>1, ChangedType
<1>3. ASSUME ~g.overlapped
      PROVE  Fits(g) /\ AllPending(g) /\ (ready => IsCurrent(g, config))
  <2>1. ~form.overlapped /\ form.requests = {}
    BY <1>2, <1>3
  <2>2. Fits(form) /\ (ready => IsCurrent(form, config))
    BY <2>1, AtRest
  <2>3. FitsExcept(h, D)
    <3> SUFFICES ASSUME NEW o \in h.options, o[1] \notin h.kept \cup D
                 PROVE  o[2].parents = Of(h.values, parents(o[1]))
      BY DEF FitsExcept
    <3>1. o[1] \in Vars
      BY DEF Form
    <3>2. v \notin parents(o[1])
      BY <1>1, <3>1, ParentsOutside
    <3>3. o[2].parents = Of(form.values, parents(o[1]))
      BY <2>2 DEF Fits, FitsExcept
    <3> QED BY <3>2, <3>3
  <2>4. ready => IsCurrent(h, config)
    BY <2>2 DEF IsCurrent
  <2>5. AllPending(h)
    BY <2>1 DEF AllPending
  <2>6. ClearedWell(h, g, v) /\ AllPending(g)
    BY <1>1, <1>3, <2>3, <2>5, Changed
  <2> QED BY <2>4, <2>6 DEF ClearedWell
<1> HIDE DEF g
<1>4. form' = g /\ template' = template /\ config' = config /\ ready' = ready
  BY DEF g
<1>5. TypeOK'
  BY <1>1, <1>2, <1>4 DEF TypeOK
<1>6. ASSUME ~form'.overlapped PROVE Sound'
  <2>1. Fits(g) /\ AllPending(g) /\ (ready' => IsCurrent(g, config))
    BY <1>3, <1>4, <1>6
  <2> QED BY <1>4, <2>1, Carried
<1> QED BY <1>5, <1>6 DEF IInv

LEMMA ChangeStep ==
  ASSUME IInv, NEW v \in Vars, change(v) PROVE IInv'
<1>1. form \in Form /\ acts \in Nat
  BY DEF IInv, TypeOK
<1>2. UNCHANGED <<template, config, ready>> /\ acts' \in Nat
  BY <1>1 DEF change, Act
<1>3. /\ acted \in Form /\ acted.values = form.values /\ acted.options = form.options
      /\ acted.kept = form.kept /\ acted.requests = form.requests
      /\ acted.overlapped = (form.overlapped \/ form.requests # {})
  BY <1>1, ActedForm
<1>4. CASE \E x \in Options : form' = changed(show(acted, v, x), v)
  <2>1. PICK x \in Options : form' = changed(show(acted, v, x), v)
    BY <1>4
  <2> DEFINE h == show(acted, v, x)
  <2>2. /\ h \in Form /\ h.values = Without(acted.values, {v}) \cup {<<v, x>>}
        /\ h.options = acted.options /\ h.kept = acted.kept
        /\ h.requests = acted.requests /\ h.overlapped = acted.overlapped
    BY <1>3, ShowForm
  <2>3. form' = changed(h, v)
    BY <2>1
  <2> HIDE DEF h
  <2>4. \A some : v \notin some => Of(h.values, some) = Of(form.values, some)
    BY <1>3, <2>2 DEF Of, Without
  <2>5. /\ h.options = form.options /\ h.kept = form.kept /\ h.requests = form.requests
        /\ h.overlapped = (form.overlapped \/ form.requests # {})
    BY <1>3, <2>2
  <2> QED BY <1>2, <2>2, <2>3, <2>4, <2>5, UserChange
<1>5. CASE form' = changed([acted EXCEPT !.values = Without(@, {v})], v)
  <2> DEFINE h == [acted EXCEPT !.values = Without(@, {v})]
  <2>1. /\ h \in Form /\ h.values = Without(acted.values, {v})
        /\ h.options = acted.options /\ h.kept = acted.kept
        /\ h.requests = acted.requests /\ h.overlapped = acted.overlapped
    BY <1>3 DEF Form, Values, Without
  <2>2. form' = changed(h, v)
    BY <1>5
  <2> HIDE DEF h
  <2>3. \A some : v \notin some => Of(h.values, some) = Of(form.values, some)
    BY <1>3, <2>1 DEF Of, Without
  <2>4. /\ h.options = form.options /\ h.kept = form.kept /\ h.requests = form.requests
        /\ h.overlapped = (form.overlapped \/ form.requests # {})
    BY <1>3, <2>1
  <2> QED BY <1>2, <2>1, <2>2, <2>3, <2>4, UserChange
<1> QED BY <1>4, <1>5 DEF change

LEMMA ConfigurationStep ==
  ASSUME IInv, updateConfigurationId PROVE IInv'
<1>1. /\ template \in Templates /\ form \in Form /\ ready \in BOOLEAN /\ acts \in Nat
  BY DEF IInv, TypeOK
<1> DEFINE values == Without(form.values, form.disabled)
           r == [of |-> {}, values |-> values, config |-> config']
<1>2. /\ template' = template /\ config' \in Configs /\ ready' = ready /\ acts' = acts + 1
      /\ form' = [acted EXCEPT !.requests = @ \cup {r}, !.overlay = TRUE]
  BY DEF updateConfigurationId, Act
<1>3. r \in Requests
  BY <1>1, <1>2 DEF Requests, Values, Form, Without
<1>4. r.of = {} /\ r.values = values /\ r.config = config'
  OBVIOUS
<1> HIDE DEF r, values
<1>5. /\ acted \in Form /\ acted.values = form.values /\ acted.options = form.options
      /\ acted.kept = form.kept /\ acted.disabled = form.disabled
      /\ acted.requests = form.requests
      /\ acted.overlapped = (form.overlapped \/ form.requests # {})
  BY <1>1, ActedForm
<1>6. /\ form' \in Form /\ form'.values = form.values /\ form'.options = form.options
      /\ form'.kept = form.kept /\ form'.disabled = form.disabled
      /\ form'.requests = form.requests \cup {r}
      /\ form'.overlapped = (form.overlapped \/ form.requests # {})
  BY <1>2, <1>3, <1>5 DEF Form
<1>7. TypeOK'
  BY <1>1, <1>2, <1>6 DEF TypeOK
<1>8. ASSUME ~form'.overlapped PROVE Sound'
  <2>1. ~form.overlapped /\ form.requests = {}
    BY <1>6, <1>8
  <2>2. Fits(form)
    BY <2>1, AtRest
  <2>3. Fits(form)'
    BY <1>2, <1>6, <2>2 DEF Fits, FitsExcept, Of, parents
  <2>4. Without(form.values, form.disabled)' = values
    BY <1>6 DEF Without, values
  <2>5. Configuring(form)'
    BY <1>4, <1>6, <2>1, <2>4 DEF Configuring
  <2> QED BY <2>3, <2>5 DEF Sound
<1> QED BY <1>7, <1>8 DEF IInv

LEMMA FailedStep ==
  ASSUME IInv, NEW r \in form.requests, failed(r), UNCHANGED <<template, config, acts>>
  PROVE  IInv'
<1>1. /\ template \in Templates /\ config \in Configs /\ form \in Form
      /\ ready \in BOOLEAN /\ acts \in Nat
  BY DEF IInv, TypeOK
<1> DEFINE f == Received(r)
           g == Over(f)
<1>2. form' = g /\ ready' = (ready /\ r.of # {})
  BY DEF failed
<1>3. /\ f \in Form /\ f.values = form.values /\ f.options = form.options /\ f.kept = form.kept
      /\ f.requests = form.requests \ {r} /\ f.overlapped = form.overlapped
  BY <1>1, ReceivedForm
<1> HIDE DEF f
<1>4. /\ g \in Form /\ g.values = f.values /\ g.options = f.options /\ g.kept = f.kept
      /\ g.requests = f.requests /\ g.overlapped = f.overlapped
  BY <1>3, OverForm
<1> HIDE DEF g
<1>5. TypeOK'
  BY <1>1, <1>2, <1>4 DEF TypeOK
<1>6. ASSUME ~form'.overlapped PROVE Sound'
  <2>1. Sound
    BY <1>2, <1>3, <1>4, <1>6 DEF IInv
  <2>2. /\ Fits(form) => Fits(g)
        /\ \A c : IsCurrent(form, c) => IsCurrent(g, c)
        /\ \A s : Pending(form, s) => Pending(g, s)
    BY <1>3, <1>4, Alike
  <2>3. AllPending(g) /\ (ready' => IsCurrent(g, config))
    <3>1. CASE AllPending(form) /\ (ready => IsCurrent(form, config))
      BY <1>2, <1>3, <1>4, <2>2, <3>1 DEF AllPending
    <3>2. CASE Configuring(form)
      <4>1. form.requests = {r} /\ r.of = {}
        BY <3>2 DEF Configuring
      <4>2. g.requests = {}
        BY <1>3, <1>4, <4>1
      <4> QED BY <1>2, <4>1, <4>2 DEF AllPending
    <3> QED BY <2>1, <3>1, <3>2 DEF Sound
  <2>4. Fits(g)
    BY <2>1, <2>2 DEF Sound
  <2> QED BY <1>2, <2>3, <2>4, Carried
<1> QED BY <1>5, <1>6 DEF IInv

LEMMA ChangeDoneStep ==
  ASSUME IInv, NEW r \in form.requests, changeDone(r), UNCHANGED <<template, config, acts>>
  PROVE  IInv'
<1>1. /\ template \in Templates /\ config \in Configs /\ form \in Form
      /\ ready \in BOOLEAN /\ acts \in Nat
  BY DEF IInv, TypeOK
<1>2. r \in Requests
  BY <1>1 DEF Form
<1> DEFINE listed == resolved(r.values) \cap UNION {allDescendants(v) : v \in r.of}
           f == Received(r)
<1>3. r.of # {} /\ ready' = ready
  BY DEF changeDone
<1>4. PICK filled \in SUBSET listed, locked \in SUBSET (template.lockable \cap resolved(r.values)) :
        \E order \in orders(listed), defaults \in SUBSET filled :
          form' = Over(changeAnswered(f, r, order,
                         [filled |-> filled, defaults |-> defaults, locked |-> locked]))
  BY DEF changeDone
<1>5. PICK order \in orders(listed), defaults \in SUBSET filled :
        form' = Over(changeAnswered(f, r, order,
                       [filled |-> filled, defaults |-> defaults, locked |-> locked]))
  BY <1>4
<1>6. listed \in SUBSET (resolved(r.values) \cap Below(r))
  BY DEF Below
<1> HIDE DEF listed
<1> DEFINE reply == [filled |-> filled, defaults |-> defaults, locked |-> locked]
           h == changeAnswered(f, r, order, reply)
           g == Over(h)
<1>7. /\ f \in Form /\ f.values = form.values /\ f.options = form.options /\ f.kept = form.kept
      /\ f.requests = form.requests \ {r} /\ f.overlapped = form.overlapped
  BY <1>1, ReceivedForm
<1> HIDE DEF f
<1>8. InTurn(f, r)
  <2> SUFFICES ASSUME ~f.overlapped
               PROVE  /\ Fits(f) /\ (ready => IsCurrent(f, config))
                      /\ AllPending(f) /\ Pending(f, r)
    BY <1>7 DEF InTurn
  <2>1. Sound
    BY <1>7 DEF IInv
  <2>2. Fits(form) /\ AllPending(form) /\ (ready => IsCurrent(form, config))
    BY <1>3, <2>1 DEF Sound, Configuring
  <2>3. /\ Fits(f) /\ (IsCurrent(form, config) => IsCurrent(f, config))
        /\ \A s : Pending(form, s) => Pending(f, s)
    BY <1>7, <2>2, Alike
  <2> QED BY <1>7, <2>2, <2>3 DEF AllPending
<1>9. InTurn(h, r)
  BY <1>1, <1>2, <1>6, <1>8, ChangeAnswered
<1> HIDE DEF h
<1>10. /\ g \in Form /\ g.values = h.values /\ g.options = h.options /\ g.kept = h.kept
       /\ g.requests = h.requests /\ g.overlapped = h.overlapped
  BY <1>9, OverForm DEF InTurn
<1>11. form' = g
  BY <1>5 DEF h
<1> HIDE DEF g
<1>12. TypeOK'
  BY <1>1, <1>3, <1>10, <1>11 DEF TypeOK
<1>13. ASSUME ~form'.overlapped PROVE Sound'
  <2>1. Fits(h) /\ (ready => IsCurrent(h, config)) /\ AllPending(h)
    BY <1>9, <1>10, <1>11, <1>13 DEF InTurn
  <2>2. /\ Fits(g) /\ (IsCurrent(h, config) => IsCurrent(g, config))
        /\ \A s : Pending(h, s) => Pending(g, s)
    BY <1>10, <2>1, Alike
  <2>3. AllPending(g) /\ (ready' => IsCurrent(g, config))
    BY <1>3, <1>10, <2>1, <2>2 DEF AllPending
  <2> QED BY <1>11, <2>2, <2>3, Carried
<1> QED BY <1>12, <1>13 DEF IInv

LEMMA ConfigDoneStep ==
  ASSUME IInv, NEW r \in form.requests, configDone(r), UNCHANGED <<template, config, acts>>
  PROVE  IInv'
<1>1. /\ template \in Templates /\ config \in Configs /\ form \in Form
      /\ ready \in BOOLEAN /\ acts \in Nat
  BY DEF IInv, TypeOK
<1>2. r \in Requests
  BY <1>1 DEF Form
<1>3. PICK some \in SUBSET resolved(r.values) :
        \E order \in orders(some), conforming \in SUBSET {v \in some : Has(r.values, v)} :
           form' = Over(configAnswered(Received(r), r, order, conforming))
  BY DEF configDone
<1>4. PICK order \in orders(some), conforming \in SUBSET {v \in some : Has(r.values, v)} :
        form' = Over(configAnswered(Received(r), r, order, conforming))
  BY <1>3
<1>5. some \in SUBSET Vars /\ \A v \in conforming : Has(r.values, v)
  BY DEF resolved
<1> DEFINE f == Received(r)
           a == configHandled(f, r, order, conforming)[Len(order)]
           F == [f EXCEPT !.kept = Vars \ Range(order)]
           h == a.form
           g == Over(h)
<1>6. form' = g /\ ready' = TRUE /\ r.of = {}
  BY <1>4 DEF configDone, configAnswered
<1>7. /\ f \in Form /\ f.values = form.values /\ f.options = form.options /\ f.kept = form.kept
      /\ f.disabled = form.disabled /\ f.requests = form.requests \ {r}
      /\ f.overlapped = form.overlapped
  BY <1>1, ReceivedForm
<1> HIDE DEF f
<1>8. F = [f EXCEPT !.kept = Vars \ some]
  <2>1. Range(order) = some
    BY <1>5, Ordered
  <2> QED BY <2>1
<1>9. Partway(F, r, conforming, some, a)
  BY <1>1, <1>2, <1>5, <1>7, ConfigHandled
<1>10. F.requests = f.requests /\ F.overlapped = f.overlapped
  BY <1>7 DEF Form
<1> HIDE DEF a, F
<1>11. h \in Form /\ h.requests = f.requests /\ h.overlapped = f.overlapped
  BY <1>9, <1>10 DEF Partway, Handling
<1>12. ASSUME r.values = Without(f.values, f.disabled), r.config = config
       PROVE  Fits(h) /\ IsCurrent(h, config)
  BY <1>1, <1>2, <1>7, <1>8, <1>9, <1>12, Reconfigured
<1> HIDE DEF h
<1>13. /\ g \in Form /\ g.values = h.values /\ g.options = h.options /\ g.kept = h.kept
       /\ g.requests = h.requests /\ g.overlapped = h.overlapped
  BY <1>11, OverForm
<1> HIDE DEF g
<1>14. TypeOK'
  BY <1>1, <1>6, <1>13 DEF TypeOK
<1>15. ASSUME ~form'.overlapped PROVE Sound'
  <2>1. Sound
    <3>1. ~form.overlapped
      BY <1>6, <1>7, <1>11, <1>13, <1>15
    <3> QED BY <3>1 DEF IInv
  <2>2. Configuring(form)
    BY <1>6, <2>1 DEF Sound, AllPending, Pending
  <2>3. form.requests = {r} /\ r.config = config /\ r.values = Without(f.values, f.disabled)
    BY <1>7, <2>2 DEF Configuring
  <2>4. Fits(h) /\ IsCurrent(h, config)
    BY <1>12, <2>3
  <2>5. Fits(g) /\ IsCurrent(g, config)
    BY <1>13, <2>4, Alike
  <2>6. AllPending(g)
    BY <1>7, <1>11, <1>13, <2>3 DEF AllPending
  <2> QED BY <1>6, <2>5, <2>6, Carried
<1> QED BY <1>14, <1>15 DEF IInv

-----------------------------------------------------------------------------
(* The theorems. *)

\* The invariant is kept by whatever the user does and the server answers (variables.js).
THEOREM FormInvariant == Spec => []IInv
<1>1. ASSUME IInv, [Next]_vars PROVE IInv'
  <2>1. CASE UNCHANGED vars
    <3>1. /\ template' = template /\ form' = form /\ config' = config /\ ready' = ready
          /\ acts' = acts
      BY <2>1 DEF vars
    <3>2. TypeOK'
      BY <1>1, <3>1 DEF IInv, TypeOK
    <3>3. ASSUME ~form.overlapped PROVE Sound'
      <4>1. Sound
        BY <1>1, <3>3 DEF IInv
      <4>2. PICK f : form' = f /\ form = f
        BY <3>1
      <4>3. Fits(f)
        BY <4>1, <4>2 DEF Sound
      <4>4. CASE AllPending(f) /\ (ready => IsCurrent(f, config))
        BY <3>1, <4>2, <4>3, <4>4, Carried
      <4>5. CASE Configuring(f)
        <5>1. Fits(form)'
          BY <3>1, <4>2, <4>3, CarriedFits
        <5>2. Configuring(form)'
          BY <3>1, <4>2, <4>5 DEF Configuring
        <5> QED BY <5>1, <5>2 DEF Sound
      <4> QED BY <4>1, <4>2, <4>4, <4>5 DEF Sound
    <3> QED BY <3>1, <3>2, <3>3 DEF IInv
  <2>2. ASSUME NEW v \in Vars, change(v) PROVE IInv'
    BY <1>1, <2>2, ChangeStep
  <2>3. CASE updateConfigurationId
    BY <1>1, <2>3, ConfigurationStep
  <2>4. ASSUME NEW r \in form.requests, answer(r) PROVE IInv'
    <3>1. UNCHANGED <<template, config, acts>> /\ (failed(r) \/ changeDone(r) \/ configDone(r))
      BY <2>4 DEF answer
    <3>2. CASE failed(r)
      BY <1>1, <3>1, <3>2, FailedStep
    <3>3. CASE changeDone(r)
      BY <1>1, <3>1, <3>3, ChangeDoneStep
    <3>4. CASE configDone(r)
      BY <1>1, <3>1, <3>4, ConfigDoneStep
    <3> QED BY <3>1, <3>2, <3>3, <3>4
  <2> QED BY <1>1, <2>1, <2>2, <2>3, <2>4 DEF Next, Answers
<1> QED BY InitIsSound, <1>1, PTL DEF Spec

\* What the form offers fits what it shows, for any template, whatever the server disables, in
\* whatever order the answers come and list the variables, whichever defaults they set off and
\* however often something changes.
THEOREM OptionsFitCorrect == Spec => []OptionsFit
<1>1. ASSUME IInv PROVE OptionsFit
  <2> SUFFICES ASSUME form.requests = {}, ~form.overlapped, ready,
                      NEW offered \in Without(form.options, form.kept)
               PROVE  offered[2] = Context(offered[1], form.values, config)
    BY DEF OptionsFit
  <2>1. Fits(form) /\ IsCurrent(form, config)
    BY <1>1, AtRest
  <2>2. offered \in form.options /\ offered[1] \notin form.kept
    BY DEF Without
  <2>3. offered[2].parents = Of(form.values, parents(offered[1])) /\ offered[2].config = config
    BY <2>1, <2>2 DEF Fits, FitsExcept, IsCurrent
  <2>4. offered[2] \in Contexts
    BY <1>1, <2>2 DEF IInv, TypeOK, Form
  <2> QED BY <2>3, <2>4 DEF Contexts, Context
<1> QED BY FormInvariant, <1>1, PTL
=============================================================================
