---------------------------- MODULE ViewContract ----------------------------
(***************************************************************************)
(* core/view_contract: how the view a module declares becomes the document *)
(* every interface renders. A view is either a tree of contract objects,   *)
(* whose shorthand is expanded (normalization.py), or a legacy "ui"        *)
(* mapping that is translated; both are validated (validation.py), then a  *)
(* renderer negotiates (compatibility.py) and the headless renderer        *)
(* (headless_renderer.py) checks the document once more, by code of its    *)
(* own. The behaviours write a view part by part and put it through.       *)
(*                                                                         *)
(* A component tree is the sequence of its components in the order the     *)
(* code walks it, each with the index of its parent. An id is a base, in   *)
(* its parts, with the occurrence numbers the code appends to it. Nested   *)
(* bindings, wherever in a value they are, are the set of their sources,   *)
(* and the effects of an action, on success and on failure, one set. A     *)
(* condition may hold conditions, which hold bindings and literals only.   *)
(* Entries of a legacy view that its parser drops, for want of a key or an *)
(* operation, are left out.                                                *)
(***************************************************************************)
EXTENDS Naturals, Sequences, SequencesExt, FiniteSets

CONSTANT MaxParts

VARIABLES
  view,     \* the declared document being written
  legacy,   \* <<>>, or the legacy view that was translated instead
  served,   \* <<>>, or the normalized document
  verdict   \* how far it came

vars == <<view, legacy, served, verdict>>

Range1(s) == {s[i] : i \in 1 .. Len(s)}
KeyList(s) == [i \in 1 .. Len(s) |-> s[i].key]
KeysOf(s) == {s[i].key : i \in 1 .. Len(s)}
Unique(s) == \A i, j \in 1 .. Len(s) : s[i] = s[j] => i = j

-----------------------------------------------------------------------------
\* models.py: what a document is made of, and what of it is supported.

ComponentTypes ==
  {"page", "stack", "columns", "tabs", "panel", "card", "collection", "table", "form",
   "field", "text", "markdown", "status", "notice", "actions", "navigation", "detail",
   "timeline", "message", "composer", "terminal", "progress", "checklist", "tree", "expander"}
StateScopes == {"event", "view", "session", "server"}
ValueTypes == {"string", "integer", "number", "boolean", "date", "time", "datetime",
               "object", "array"}
SourceKinds == {"singleton", "collection", "stream", "tree"}
RefreshModes == {"manual", "on_intent", "poll", "stream"}
Strategies == {"replace", "append"}
ActionScopes == {"view", "item", "selection", "form", "message", "navigation"}
FieldTypes == {"text", "textarea", "number", "checkbox", "color", "slider", "select",
               "multiselect", "date", "time", "datetime", "password", "hidden", "file"}
OfSource == {"refresh_source", "start_polling", "stop_polling"}
OfState == {"set_state", "clear_state", "select_item"}
EffectTypes == OfSource \cup OfState
  \cup {"refresh_view", "navigate", "open_panel", "close_panel", "show_notification", "download"}
Version == 1

\* The operators of a condition, by what they are given.
Compound == {"all", "any"}
Unary == {"not", "exists", "truthy", "falsy"}
Comparisons == {"equals", "not_equals", "in", "not_in", "gt", "gte", "lt", "lte"}

Binding(source) == [of |-> "binding", source |-> source]
Literal(value) == [of |-> "literal", source |-> value]
Condition(op, args) == [of |-> "condition", op |-> op, args |-> args]
Always == Condition("", <<>>)   \* none is declared

\* The conditions a condition is made of: itself and its operands.
Inside(c) == {c} \cup {a \in Range1(c.args) : a.of = "condition"}

Policy(mode, strategy, interval, stop) ==
  [mode |-> mode, strategy |-> strategy, interval |-> interval, stop |-> stop]
Manual == Policy("manual", "replace", 0, Always)

IdOf(base) == [base |-> base, marks |-> <<>>]
Id(name) == IdOf(<<name>>)

Source(key, kind, depends, nested) ==
  [key |-> key, kind |-> kind, told |-> TRUE, depends |-> depends, nested |-> nested,
   refresh |-> Manual]
State(key, scope, type) == [key |-> key, scope |-> scope, type |-> type]
\* told: it has an intent and a label; target: a command or an operation.
Action(key, scope, effects, enabled) ==
  [key |-> key, scope |-> scope, effects |-> effects, enabled |-> enabled,
   told |-> TRUE, target |-> TRUE, nested |-> {}]
Component(id, type, parent, binding, inner, action, shown) ==
  [id |-> id, type |-> type, parent |-> parent, binding |-> binding, inner |-> inner,
   key |-> "", input |-> "text", nested |-> {}, action |-> action, shown |-> shown]

Page == Component(Id("p"), "page", 0, "", "", "", Always)

\* named: view_id, module_id and title are there; needs: what a renderer must be
\* capable of.
Blank == [named |-> TRUE, version |-> Version, needs |-> {}, sources |-> <<>>, state |-> <<>>,
          actions |-> <<>>, effects |-> <<>>, poll |-> Manual, tree |-> <<Page>>]

-----------------------------------------------------------------------------
\* normalization.py _prepare_declared_presentation.

\* The binding a component's children fall back to is the nearest one declared
\* above them; a binding given by the property binding_source is not passed on.
Inherited(tree) ==
  LET above[i \in 1 .. Len(tree)] ==
        IF tree[i].parent = 0 THEN ""
        ELSE IF tree[tree[i].parent].binding # "" THEN tree[tree[i].parent].binding
        ELSE above[tree[i].parent]
  IN above

\* Mutant: the third component of an id is named as the second.
RenamedOnce(tree, i) ==
  IF \E j \in 1 .. i - 1 : tree[j].id = tree[i].id
  THEN [tree[i].id EXCEPT !.marks = Append(@, 2)] ELSE tree[i].id

\* The second and later components of an id get their occurrence appended.
Renamed(tree, i) ==
  LET before == Cardinality({j \in 1 .. i - 1 : tree[j].id = tree[i].id})
  IN IF before = 0 THEN tree[i].id
     ELSE [tree[i].id EXCEPT !.marks = Append(@, before + 1)]

Bound(tree, i) ==
  LET c == tree[i]
      own == IF c.binding # "" THEN c.binding ELSE c.inner
  IN IF own = "" /\ c.type = "table" THEN Inherited(tree)[i] ELSE own

Prepared(tree) ==
  [i \in 1 .. Len(tree) |->
     [tree[i] EXCEPT !.id = Renamed(tree, i),
                     !.binding = Bound(tree, i),
                     !.key = IF tree[i].type = "field" /\ @ = "" THEN tree[i].id.base[1] ELSE @]]

-----------------------------------------------------------------------------
\* validation.py: what is wrong with a document, as a set of kinds.

NeedsBinding == {"collection", "table", "timeline", "tree"}

\* The validation strips the blanks around the keys it collects. It alone does:
\* what names them is looked up as it is written, here and by the renderer.
Stripped(key) == IF key = " s" THEN "s" ELSE key
Collected(s) == {Stripped(key) : key \in KeysOf(s)} \ {""}
Keyed(s) == /\ \A i \in 1 .. Len(s) : Stripped(s[i].key) # ""
            /\ \A i, j \in 1 .. Len(s) : Stripped(s[i].key) = Stripped(s[j].key) => i = j

Known(d) == Collected(d.sources) \cup Collected(d.state)
Bindable(d) == Known(d) \cup {"capabilities"}

Kinds(kind, fails) == IF fails THEN {kind} ELSE {}

\* Mutant: a state key will do for an effect on a source.
EffectFailsLoosely(d, e) ==
  \/ e[1] \notin EffectTypes
  \/ e[1] \in OfSource \cup OfState /\ e[2] \notin Known(d)
  \/ e[1] = "navigate" /\ e[2] = ""

EffectFails(d, e) ==
  \/ e[1] \notin EffectTypes
  \/ e[1] \in OfSource /\ e[2] \notin Collected(d.sources)
  \/ e[1] \in OfState /\ e[2] \notin Collected(d.state)
  \/ e[1] = "navigate" /\ e[2] = ""

\* An operator there is not, or with as many operands as it does not take.
Misused(op, operands) ==
  \/ op \notin Compound \cup Unary \cup Comparisons
  \/ op \in Unary /\ operands # 1
  \/ op \in Comparisons /\ operands # 2
  \/ op \in Compound /\ operands < 1

ConditionFails(d, c) ==
  c # Always /\ \E inner \in Inside(c) :
    \/ Misused(inner.op, Len(inner.args))
    \/ \E a \in Range1(inner.args) : a.of = "binding" /\ a.source \notin Bindable(d)

PolicyFails(p) ==
  \/ p.mode \notin RefreshModes \/ p.strategy \notin Strategies
  \/ p.mode = "poll" /\ p.interval <= 0

SourceIssues(d, s) ==
  Kinds("source kind", s.kind \notin SourceKinds)
  \cup Kinds("operation", ~s.told)
  \cup Kinds("dependency", ~(s.depends \subseteq Known(d)))
  \cup Kinds("nested binding", ~(s.nested \subseteq Bindable(d)))
  \cup Kinds("source refresh", PolicyFails(s.refresh))
  \cup Kinds("condition", ConditionFails(d, s.refresh.stop))

StateIssues(s) == Kinds("state", s.scope \notin StateScopes \/ s.type \notin ValueTypes)

ActionIssues(d, a) ==
  Kinds("intent", ~a.told)
  \cup Kinds("scope", a.scope \notin ActionScopes)
  \cup Kinds("command", ~a.target)
  \cup Kinds("nested binding", ~(a.nested \subseteq Bindable(d)))
  \cup Kinds("condition", ConditionFails(d, a.enabled))
  \cup Kinds("action effect", \E e \in a.effects : EffectFails(d, e))

ComponentIssues(d, c) ==
  Kinds("no id", c.id = Id(""))
  \cup Kinds("component type", c.type \notin ComponentTypes)
  \cup Kinds("binding source", c.binding # "" /\ c.binding \notin Known(d))
  \cup Kinds("binding", c.binding = "" /\ c.type \in NeedsBinding)
  \cup Kinds("action key", c.action # "" /\ c.action \notin Collected(d.actions))
  \cup Kinds("field key", c.type = "field" /\ c.key = "")
  \cup Kinds("field type", c.type = "field" /\ c.input \notin FieldTypes)
  \cup Kinds("nested binding", ~(c.nested \subseteq Bindable(d)))
  \cup Kinds("condition", ConditionFails(d, c.shown))

Issues(d) ==
  (UNION {SourceIssues(d, d.sources[i]) : i \in 1 .. Len(d.sources)})
  \cup (UNION {StateIssues(d.state[i]) : i \in 1 .. Len(d.state)})
  \cup (UNION {ActionIssues(d, d.actions[i]) : i \in 1 .. Len(d.actions)})
  \cup (UNION {ComponentIssues(d, d.tree[i]) : i \in 1 .. Len(d.tree)})
  \cup Kinds("name", ~d.named)
  \cup Kinds("version", d.version # Version)
  \cup Kinds("key", ~(Keyed(d.sources) /\ Keyed(d.state) /\ Keyed(d.actions)))
  \cup Kinds("effect", \E e \in Range1(d.effects) : EffectFails(d, e))
  \cup Kinds("refresh", PolicyFails(d.poll))
  \cup Kinds("condition", ConditionFails(d, d.poll.stop))
  \cup Kinds("presentation", d.tree = <<>>)
  \cup Kinds("root", d.tree # <<>> /\ d.tree[1].type # "page")
  \cup Kinds("component id", ~Unique([i \in 1 .. Len(d.tree) |-> d.tree[i].id]))

-----------------------------------------------------------------------------
\* headless_renderer.py: what it reports of a document, given an environment:
\* the sources that have a value, the sources and states whose value is not
\* empty, the comparisons that hold, and whether it has capabilities.

\* What a truth test makes of an operand: a condition is an object like others.
Truth(env, a) ==
  CASE a.of = "binding" /\ a.source = "capabilities" -> env.capable
    [] a.of = "binding" /\ a.source # "capabilities" -> a.source \in env.full
    [] a.of = "literal" -> a.source # ""
    [] OTHER -> TRUE

Exists(d, a) == a.of = "binding" => a.source \in KeysOf(d.sources) \cup KeysOf(d.state)

\* The outcome of the first operand that is not passed over.
FirstBut(passed, outcomes) ==
  IF \A i \in 1 .. Len(outcomes) : outcomes[i] = passed THEN passed
  ELSE outcomes[CHOOSE i \in 1 .. Len(outcomes) :
                  outcomes[i] # passed /\ \A j \in 1 .. i - 1 : outcomes[j] = passed]

Verdict(b) == IF b THEN "true" ELSE "false"
Negated(outcome) ==
  CASE outcome = "true" -> "false" [] outcome = "false" -> "true" [] OTHER -> outcome

\* _evaluate_condition: what a condition comes to, given what each operand
\* comes to when it is evaluated as a condition. Too few operands raise.
Evaluated(d, env, c, outcomes) ==
  CASE c.op = "all" -> FirstBut("true", outcomes)
    [] c.op = "any" -> FirstBut("false", outcomes)
    [] c.op \in Unary /\ c.args = <<>> -> "raises"
    [] c.op \in Comparisons /\ Len(c.args) < 2 -> "raises"
    [] c.op = "not" /\ c.args # <<>> -> Negated(outcomes[1])
    [] c.op = "exists" /\ c.args # <<>> -> Verdict(Exists(d, c.args[1]))
    [] c.op = "truthy" /\ c.args # <<>> -> Verdict(Truth(env, c.args[1]))
    [] c.op = "falsy" /\ c.args # <<>> -> Verdict(~Truth(env, c.args[1]))
    [] c.op \in Comparisons /\ Len(c.args) >= 2 -> Verdict(c.op \in env.holding)
    [] OTHER -> "true"

\* A binding or a literal is no condition: it has no operator to look at.
Innermost(d, env, c) == Evaluated(d, env, c, [i \in 1 .. Len(c.args) |-> "raises"])
Outcome(d, env, c) ==
  Evaluated(d, env, c,
            [i \in 1 .. Len(c.args) |->
               IF c.args[i].of = "condition" THEN Innermost(d, env, c.args[i]) ELSE "raises"])

\* Where the target of an effect is looked up, by the type of the effect.
Dangling(d, e) ==
  \/ e[1] \in OfSource /\ e[2] \notin KeysOf(d.sources)
  \/ e[1] \in OfState /\ e[2] \notin KeysOf(d.state)
  \/ e[1] = "navigate" /\ e[2] = ""

HeadlessSource(env, s) ==
  Kinds("source kind", s.kind \notin SourceKinds)
  \cup Kinds("operation", ~s.told)
  \cup Kinds("dependency", ~(s.depends \subseteq env.given))
  \cup Kinds("unresolved", s.key \notin env.given)

\* The effects of an action that is disabled are not looked at, nor the
\* effect type of an action's effects.
HeadlessAction(d, env, a) ==
  Kinds("scope", a.scope \notin ActionScopes)
  \cup Kinds("command", ~a.target)
  \cup Kinds("action effect",
             Outcome(d, env, a.enabled) = "true" /\ \E e \in a.effects : Dangling(d, e))

HeadlessComponent(d, c) ==
  Kinds("component type", c.type \notin ComponentTypes)
  \cup Kinds("binding source",
             c.binding # "" /\ c.binding \notin KeysOf(d.sources) \cup KeysOf(d.state))
  \cup Kinds("action key", c.action # "" /\ c.action \notin KeysOf(d.actions))
  \cup Kinds("field type", c.type = "field" /\ c.input \notin FieldTypes)

Headless(d, env) ==
  (UNION {HeadlessSource(env, d.sources[i]) : i \in 1 .. Len(d.sources)})
  \cup (UNION {StateIssues(d.state[i]) : i \in 1 .. Len(d.state)})
  \cup (UNION {HeadlessAction(d, env, d.actions[i]) : i \in 1 .. Len(d.actions)})
  \cup (UNION {HeadlessComponent(d, d.tree[i]) : i \in 1 .. Len(d.tree)})
  \cup Kinds("version", d.version # Version)
  \cup Kinds("effect", \E e \in Range1(d.effects) : e[1] \notin EffectTypes \/ Dangling(d, e))
  \cup Kinds("refresh", PolicyFails(d.poll))
  \cup Kinds("presentation", d.tree = <<>>)

\* The conditions it evaluates, whatever they come to. The last, of the refresh
\* policy, is evaluated without capabilities.
Raises(d, env) ==
  \/ \E a \in Range1(d.actions) : Outcome(d, env, a.enabled) = "raises"
  \/ \E c \in Range1(d.tree) : Outcome(d, env, c.shown) = "raises"
  \/ Outcome(d, [env EXCEPT !.capable = FALSE], d.poll.stop) = "raises"

-----------------------------------------------------------------------------
\* compatibility.py negotiate_view_contract: the renderer knows the version, the
\* validation passes, and the renderer supports every component, field, source
\* and effect and has every capability.

Negotiable(d, r) ==
  /\ d.version \in r.versions
  /\ Issues(d) = {}
  /\ \A c \in Range1(d.tree) :
       c.type \in r.components /\ (c.type = "field" => c.input \in r.fields)
  /\ \A s \in Range1(d.sources) : s.kind \in r.kinds
  /\ \A e \in Range1(d.effects) : e[1] \in r.effects
  /\ \A a \in Range1(d.actions) : \A e \in a.effects : e[1] \in r.effects
  /\ d.needs \subseteq r.capabilities

-----------------------------------------------------------------------------
\* The legacy path: normalize_view_document over adapt_module_view.

NoForm == [given |-> FALSE, fields |-> <<>>, actions |-> <<>>]
Form(fields, actions) == [given |-> TRUE, fields |-> fields, actions |-> actions]
Field(key, type, nested, flags) ==
  [key |-> key, type |-> type, nested |-> nested, flags |-> flags]

\* The fields of a schema that have a flag, in their order.
Flagged(fields, flag) ==
  LET some[i \in 0 .. Len(fields)] ==
        IF i = 0 THEN <<>>
        ELSE IF flag \in fields[i].flags THEN Append(some[i - 1], fields[i])
        ELSE some[i - 1]
  IN some[Len(fields)]

\* The form of a section of the schema: the fields with its flag and its extra
\* fields; the edit form has those of the create form unless it has its own.
FromSchema(schema, flag) ==
  LET section == IF flag = "create" THEN schema.create ELSE schema.edit
      extra == IF section.extra = <<>> THEN schema.create.extra ELSE section.extra
      fields == Flagged(schema.fields, flag) \o extra
  IN IF fields = <<>> THEN NoForm ELSE Form(fields, section.actions)

Renders(v) == v.mode \in {"collection", "form"}

CreateForm(v) ==
  IF ~Renders(v) THEN NoForm
  ELSE IF v.create.given THEN v.create ELSE FromSchema(v.schema, "create")

EditForm(v) ==
  IF ~Renders(v) THEN NoForm
  ELSE IF v.edit.given THEN v.edit ELSE FromSchema(v.schema, "edit")

HasColumns(v) ==
  Renders(v) /\ (v.columns \/ \E f \in Range1(v.schema.fields) : "list" \in f.flags)

\* Actions that are not declared come from the commands of the view.
Command(v, key, scope) ==
  IF key \in v.commands THEN <<Action(key, scope, {}, Always)>> ELSE <<>>

ViewActions(v) ==
  IF ~Renders(v) THEN <<>>
  ELSE IF v.viewActions # <<>> THEN v.viewActions
  ELSE Command(v, "create", "view")

ItemActions(v) ==
  IF ~Renders(v) THEN <<>>
  ELSE IF v.itemActions # <<>> THEN v.itemActions
  ELSE Command(v, "edit", "item") \o Command(v, "delete", "item")

Declared(v) == ViewActions(v) \o ItemActions(v)
Listed(v) == CreateForm(v).actions \o EditForm(v).actions

\* Mutant: an action of both forms is added twice.
EveryFormAction(v) ==
  SelectSeq(Listed(v), LAMBDA a : a.key \notin KeysOf(Declared(v)))

\* A form's action is added unless one of its key is there already.
FormActions(v) ==
  LET listed == Listed(v)
  IN SetToSeq({listed[i] : i \in {i \in 1 .. Len(listed) :
       /\ listed[i].key \notin KeysOf(Declared(v))
       /\ \A j \in 1 .. i - 1 : listed[j].key # listed[i].key}})

\* Every portable action refreshes the items; a form's action does nothing more.
Portable(a, scope, effects) ==
  [Action(a.key, scope, effects, Always) EXCEPT !.told = a.told, !.nested = a.nested]

\* The bindings in a field: its own, and the source its options come from.
Offers(v, f) ==
  f.nested \cup (IF f.key \in DOMAIN v.options THEN {v.options[f.key]} ELSE {})

FormTree(v, form, suffix, at) ==
  <<Component(Id(suffix), "form", 1, "", "", "", Always)>>
  \o [i \in 1 .. Len(form.fields) |->
        [Component(IdOf(<<suffix, "field", form.fields[i].key>>),
                   "field", at, "", "", "", Always)
           EXCEPT !.key = form.fields[i].key,
                  !.input = form.fields[i].type,
                  !.nested = Offers(v, form.fields[i])]]

LegacyTree(v) ==
  LET head == <<Page>>
        \o (IF v.navigation
            THEN <<Component(Id("navigation"), "navigation", 1, "items", "", "", Always)>>
            ELSE <<>>)
      create == IF CreateForm(v).given
                THEN FormTree(v, CreateForm(v), "create", Len(head) + 2) ELSE <<>>
      edit(at) == IF EditForm(v).given THEN FormTree(v, EditForm(v), "edit", at) ELSE <<>>
      list == <<Component(Id("collection"), IF HasColumns(v) THEN "table" ELSE "collection",
                          1, "items", "", "", Always)>>
  IN IF v.mode = "form" /\ EditForm(v).given
     THEN head \o FormTree(v, EditForm(v), "form", Len(head) + 1)
     ELSE head \o list \o create \o edit(Len(head) + 2 + Len(create))

LegacyDocument(v) ==
  [Blank EXCEPT
     !.named = v.named,
     !.sources = <<Source("items", "collection", {}, {})>> \o v.sources,
     !.actions = [i \in 1 .. Len(Declared(v)) |->
                    Portable(Declared(v)[i], Declared(v)[i].scope,
                             {<<"refresh_source", "items">>})]
                 \o [i \in 1 .. Len(FormActions(v)) |->
                       Portable(FormActions(v)[i], "form", {})],
     !.tree = LegacyTree(v)]

-----------------------------------------------------------------------------
\* What authors write: declared views, part by part, and legacy views.

Plain(key, depends) == Source(key, "collection", depends, {})

\* A source that depends on others; one that has something odd about it.
Sources == {Plain(key, depends) : key \in {"s", "t"}, depends \in {{}, {"s"}, {"k"}}}
OddSources ==
  {Plain("", {}), Plain(" s", {}), Source("s", "cube", {}, {}),
   Source("s", "stream", {}, {"x"}), [Plain("s", {}) EXCEPT !.told = FALSE],
   [Plain("s", {}) EXCEPT !.refresh = Policy("poll", "append", 0, Always)]}

Conditions ==
  {Always, Condition("truthy", <<Binding("k")>>), Condition("falsy", <<Binding("x")>>),
   Condition("exists", <<Literal("yes")>>), Condition("truthy", <<>>),
   Condition("in", <<Literal("yes"), Binding("capabilities")>>),
   Condition("not", <<Condition("truthy", <<Binding("s")>>)>>),
   Condition("any", <<Condition("truthy", <<Binding("s")>>), Binding("s")>>),
   Condition("all", <<Condition("not", <<Literal("yes")>>)>>),
   Condition("maybe", <<>>)}

Effects == {<<"refresh_source", "s">>, <<"refresh_source", "k">>, <<"set_state", "k">>,
            <<"navigate", "">>, <<"refresh_view", "">>, <<"explode", "">>}

PlainAction == Action("a", "view", {}, Always)
Actions == {Action("a", "view", {e}, Always) : e \in Effects}
           \cup {Action("a", "view", {<<"refresh_source", "k">>}, c) : c \in Conditions}
OddActions == {Action("a", "galaxy", {}, Always), [PlainAction EXCEPT !.told = FALSE],
               [PlainAction EXCEPT !.target = FALSE], [PlainAction EXCEPT !.nested = {"k"}]}

Policies == {Policy("poll", "replace", 0, Always), Policy("push", "replace", 0, Always),
             Policy("poll", "replace", 5, Condition("not", <<Binding("k")>>))}

\* A component of its own: one optional attribute at most, on what it suits.
Card(shown) == Component(Id(""), "card", 1, "", "", "", shown)
Bare(type, binding) == Component(Id(""), type, 1, binding, "", "", Always)
Table == Bare("table", "")
FieldComponent == Bare("field", "")
Components == {Bare(c[1], c[2]) : c \in {"collection", "table", "card"} \X {"", "s", "k"}}
OddComponents ==
  {Card(Condition("truthy", <<Binding("x")>>)), Card(Condition("not", <<Literal("yes")>>)),
        Component(Id(""), "collection", 1, "", "s", "", Always),
        Component(Id(""), "card", 1, "", "", "a", Always),
        Bare("hologram", ""),
        FieldComponent, [FieldComponent EXCEPT !.input = "dial"],
        [FieldComponent EXCEPT !.nested = {"capabilities"}],
        [FieldComponent EXCEPT !.nested = {"x"}]}

Schema(fields, extra, actions) ==
  [fields |-> fields, create |-> [extra |-> extra, actions |-> actions],
   edit |-> [extra |-> <<>>, actions |-> <<>>]]
NoSchema == Schema(<<>>, <<>>, <<>>)
Name(flags) == Field("name", "text", {}, flags)
Add == Action("add", "view", {}, Always)
Test == Action("test", "form", {}, Always)

\* Views of every layout, and small ones with something odd about them.
LayoutViews ==
  [mode : {"collection", "form", "board"}, columns : BOOLEAN, navigation : {TRUE},
   named : {TRUE}, viewActions : {<<>>, <<Add>>}, itemActions : {<<>>, <<Add>>},
   commands : {{}, {"create", "edit", "delete"}},
   create : {NoForm, Form(<<Name({})>>, <<Test, Test>>)},
   edit : {NoForm, Form(<<>>, <<Add>>), Form(<<Name({})>>, <<Test>>)},
   schema : {NoSchema, Schema(<<Name({"list", "create", "edit"})>>, <<>>, <<Test>>),
             Schema(<<Name({"create"})>>, <<Name({})>>, <<>>)},
   options : {<<>>}, sources : {<<>>}]
OddViews ==
  [mode : {"collection"}, columns : {FALSE}, navigation : {FALSE}, named : BOOLEAN,
   viewActions : {<<Add>>, <<[Add EXCEPT !.scope = "galaxy"]>>, <<[Add EXCEPT !.nested = {"s"}]>>,
                  <<[Add EXCEPT !.told = FALSE]>>},
   itemActions : {<<>>}, commands : {{}}, create : {NoForm},
   edit : {Form(<<Name({})>>, <<>>), Form(<<Field("name", "dial", {}, {})>>, <<>>),
           Form(<<Field("name", "text", {"x"}, {})>>, <<>>)},
   schema : {NoSchema}, options : {<<>>, [name |-> "s"], [name |-> "capabilities"]},
   sources : {<<>>, <<Plain("s", {})>>, <<Plain("s", {"items"}), Plain("s", {})>>,
              <<Plain("items", {})>>, <<Plain("s", {"x"})>>, <<Source("s", "cube", {}, {})>>,
              <<Source("s", "tree", {}, {"x"})>>}]
LegacyViews == LayoutViews \cup OddViews

\* The parts a view has beyond a page; one with something odd about it counts twice.
Parts(d) ==
  Len(d.sources) + Len(d.state) + Len(d.actions) + Len(d.effects)
  + Cardinality({i \in 1 .. Len(d.sources) : d.sources[i] \notin Sources})
  + Cardinality({i \in 1 .. Len(d.actions) : d.actions[i] \notin Actions})
  + Cardinality({i \in 2 .. Len(d.tree) :
                   [d.tree[i] EXCEPT !.id = Id(""), !.parent = 1] \notin Components})
  + (IF d.poll = Manual THEN 0 ELSE 2)
  + (IF d.named /\ d.version = Version /\ d.needs = {} /\ d.tree # <<>> /\ d.tree[1] = Page
     THEN Len(d.tree) - 1 ELSE Len(d.tree) + 2)

-----------------------------------------------------------------------------
Init == view = Blank /\ legacy = <<>> /\ served = <<>> /\ verdict = "written"

Write(d) ==
  /\ verdict = "written" /\ Parts(d) <= MaxParts
  /\ view' = d
  /\ UNCHANGED <<legacy, served, verdict>>

AddSource ==
  \E s \in Sources \cup OddSources :
    /\ view.sources # <<>> => s \in Sources /\ Len(view.sources) < 2
    /\ Write([view EXCEPT !.sources = Append(@, s)])
AddState ==
  \E scope \in {"view", "planet"} :
    view.state = <<>> /\ Write([view EXCEPT !.state = <<State("k", scope, "string")>>])
AddAction ==
  \E a \in Actions \cup OddActions :
    /\ view.actions # <<>> => a = Action("a", "view", {<<"refresh_view", "">>}, Always)
    /\ Write([view EXCEPT !.actions = Append(@, a)])
AddEffect ==
  \E e \in Effects : view.effects = <<>> /\ Write([view EXCEPT !.effects = <<e>>])
SetPolling == \E p \in Policies : Write([view EXCEPT !.poll = p])

\* A capability that is needed; or, in a document built by hand, a name, a
\* version, a presentation or a root that is not right.
SetFrame ==
  /\ view.named /\ view.version = Version /\ view.needs = {} /\ view.tree = <<Page>>
  /\ \/ Write([view EXCEPT !.needs = {"live"}])
     \/ Write([view EXCEPT !.named = FALSE])
     \/ Write([view EXCEPT !.version = Version + 1])
     \/ Write([view EXCEPT !.tree = <<>>])
     \/ Write([view EXCEPT !.tree = <<[Page EXCEPT !.type = "card"]>>])

\* The components an author writes; an id that looks like one the code makes
\* is among them; the second and the third are plain.
AddComponent ==
  \E base \in {"a", "b", ""}, marks \in {<<>>, <<2>>}, parent \in {1, Len(view.tree)},
     c \in Components \cup OddComponents :
    /\ Len(view.tree) \in 1 .. 3
    /\ IF Len(view.tree) = 1 THEN base # "b" ELSE c \in {Card(Always), Table} /\ base # ""
    /\ marks # <<>> \/ base = "" => c \in {Card(Always), FieldComponent} /\ base # "b"
    /\ Write([view EXCEPT !.tree =
         Append(@, [c EXCEPT !.id = [base |-> <<base>>, marks |-> marks], !.parent = parent])])

Normalized(d) ==
  /\ served' = IF Issues(d) = {} THEN <<d>> ELSE <<>>
  /\ verdict' = IF Issues(d) = {} THEN "served" ELSE "refused"

\* normalize_view_document, on a declared view, which has a presentation and the
\* version of the code, and on a legacy view; a document built by hand is only
\* validated.
Normalize ==
  /\ verdict = "written" /\ view.tree # <<>> /\ view.version = Version
  /\ Normalized([view EXCEPT !.tree = Prepared(@)])
  /\ UNCHANGED <<view, legacy>>

NormalizeLegacy ==
  /\ verdict = "written" /\ view = Blank
  /\ \E v \in LegacyViews :
       /\ legacy' = <<v>>
       /\ Normalized(LegacyDocument(v))
  /\ UNCHANGED view

Validate ==
  /\ verdict = "written"
  /\ Normalized(view)
  /\ UNCHANGED <<view, legacy>>

\* Renderers that lack one thing, or nothing but capabilities.
Renderer(lacks) ==
  [versions |-> IF "version" \in lacks THEN {} ELSE {Version},
   components |-> ComponentTypes \ lacks, fields |-> FieldTypes \ lacks,
   kinds |-> SourceKinds \ lacks, effects |-> EffectTypes \ lacks, capabilities |-> {}]

Negotiate ==
  /\ verdict = "served"
  /\ \E lacks \in {{}, {"version"}, {"table"}, {"set_state"}, {"text"}} :
       verdict' = IF Negotiable(served[1], Renderer(lacks)) THEN "negotiated" ELSE "incompatible"
  /\ UNCHANGED <<view, legacy, served>>

Environments(given) ==
  [given : {given}, full : {{}, given}, holding : {{}, Comparisons}, capable : BOOLEAN]

Render ==
  /\ verdict = "served"
  /\ \E given \in SUBSET KeysOf(served[1].sources) : \E env \in Environments(given) :
       verdict' = IF Raises(served[1], env) THEN "raised"
                  ELSE IF Headless(served[1], env) = {} THEN "rendered" ELSE "reported"
  /\ UNCHANGED <<view, legacy, served>>

Next ==
  \/ AddSource \/ AddState \/ AddAction \/ AddEffect \/ SetPolling \/ SetFrame
  \/ AddComponent
  \/ Normalize \/ NormalizeLegacy \/ Validate \/ Negotiate \/ Render

Spec == Init /\ [][Next]_vars

-----------------------------------------------------------------------------
\* One type invariant.
TypeOK ==
  /\ Parts(view) <= MaxParts
  /\ Len(legacy) <= 1 /\ Len(served) <= 1
  /\ verdict \in {"written", "served", "refused", "negotiated", "incompatible",
                  "rendered", "reported", "raised"}
  /\ verdict \in {"written", "refused"} <=> served = <<>>

\* normalization.py _prepare_declared_presentation: the shorthand may use an
\* id twice, so a declared view is refused for its ids only if its author
\* wrote one in the form the code makes them.
ShorthandServes ==
  verdict # "written" /\ legacy = <<>>
    => \/ "component id" \notin Issues([view EXCEPT !.tree = Prepared(@)])
       \/ \E i \in 1 .. Len(view.tree) : view.tree[i].id.marks # <<>>

\* A condition that negates or combines what is no condition; or that holds one
\* that negates or combines anything, as those hold no conditions.
Combines(c) == c.op \in Compound \cup {"not"} /\ c.args # <<>>
Loose(c) ==
  \/ Combines(c) /\ \E a \in Range1(c.args) : a.of # "condition"
  \/ \E a \in Range1(c.args) : a.of = "condition" /\ Combines(a)

Evaluates(d) ==
  {a.enabled : a \in Range1(d.actions)} \cup {c.shown : c \in Range1(d.tree)} \cup {d.poll.stop}

PlainKeys(d) ==
  \A key \in KeysOf(d.sources) \cup KeysOf(d.state) \cup KeysOf(d.actions) :
    key # "" /\ Stripped(key) = key

\* What the headless renderer does not look at.
Unseen == {"name", "key", "root", "no id", "component id", "binding", "field key",
           "nested binding", "condition", "source refresh", "intent", "action effect"}

\* validation.py and headless_renderer.py check a document each with its own
\* code. What the first lets pass, with a value for every source, the second
\* renders without a report, unless a source depends on a state key, which
\* only the first accepts; it raises only where a condition negates or combines
\* a binding or a literal, which the first accepts. What the second renders
\* without a report the first refuses only for what the second does not look
\* at, and for effects only where their action is disabled or the effect is
\* of no known type. All this of keys without blanks around them: the first
\* strips them, the second does not.
Agree(d, env) ==
  /\ Issues(d) = {} =>
       /\ Headless(d, env) \subseteq {"dependency"}
       /\ "dependency" \in Headless(d, env) =>
            \E s \in Range1(d.sources) : s.depends \cap KeysOf(d.state) # {}
       /\ Raises(d, env) => \E c \in Evaluates(d) : Loose(c)
  /\ Headless(d, env) = {} /\ ~Raises(d, env) =>
       /\ Issues(d) \subseteq Unseen
       /\ "action effect" \in Issues(d) =>
            \E a \in Range1(d.actions) :
              Outcome(d, env, a.enabled) # "true" \/ \E e \in a.effects : e[1] \notin EffectTypes

ContractsAgree ==
  verdict = "written" =>
    LET d == [view EXCEPT !.tree = Prepared(@)]
    IN PlainKeys(d) => \A env \in Environments(KeysOf(d.sources)) : Agree(d, env)

\* A legacy view is refused only for a fault of its own: a name that is blank;
\* an action without intent or label, of no known scope, with a binding to no
\* source, or with the key of another; a field of no known type, bound to no
\* source, or twice in a form; a source of no known kind, that depends on or is
\* bound to no source, or that has the key of another or of the items. The
\* translation adds none: its ids, bindings, effects, form actions and
\* commands are in order.
AtFault(v) ==
  LET keys == {"items"} \cup KeysOf(v.sources)
      bindable == keys \cup {"capabilities"}
      fields == CreateForm(v).fields \o EditForm(v).fields
  IN \/ ~v.named
     \/ \E a \in Range1(Declared(v)) : a.scope \notin ActionScopes
     \/ \E a \in Range1(Declared(v) \o Listed(v)) : ~a.told \/ ~(a.nested \subseteq bindable)
     \/ ~Unique(KeyList(Declared(v)))
     \/ \E f \in Range1(fields) : f.type \notin FieldTypes \/ ~(Offers(v, f) \subseteq bindable)
     \/ ~Unique(KeyList(CreateForm(v).fields)) \/ ~Unique(KeyList(EditForm(v).fields))
     \/ \E s \in Range1(v.sources) :
          \/ s.kind \notin SourceKinds
          \/ ~(s.depends \subseteq keys) \/ ~(s.nested \subseteq bindable)
     \/ "items" \in KeysOf(v.sources) \/ ~Unique(KeyList(v.sources))

LegacyServes == legacy # <<>> /\ verdict = "refused" => AtFault(legacy[1])

=============================================================================
