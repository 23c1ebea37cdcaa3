# helix-xml in TLA+

helix-xml builds LVGL widget trees from XML: components are registered as XML
text, instantiated by name, and kept up to date by subjects (observable values).
This directory holds TLA+ models of it: component scopes and the widgets that point
into them, subjects and what still points at them, the bindings that drive widget
state from subjects, the fragments a view expands, what the metadata parser files
into which registry, themes, name lookup, packs, tests, the texts an author writes
(expressions, attributes, documents), and the XML parser underneath. TLC checks each
model on small instances, and TLAPS proves the main properties of nine of them for
instances of any size.

Everything is single-threaded C. What interleaves is not threads but calls:
observers run inside `lv_subject_set_*()`, `LV_EVENT_DELETE` handlers run inside
`lv_obj_delete()`, the component loader runs inside a parse, and the timer
handler runs later what `lv_async_call()` and `lv_obj_delete_async()` queued. The
rest is sequential, and hard for another reason: many small cases in an order nobody
wrote down, in code that is given whatever an author types.

## 1. Inventory

All paths are under `src/src/xml/`.

| component | state | operations | hard part |
|---|---|---|---|
| scope registry (`lv_xml_component.c`) | `component_scope_ll`, `pending_free_scope_ll`, the name index, per scope `instance_ll`, `instance_cnt`, `pending_free`, `styles_borrowed` | register, unregister, attach an instance, instance deleted, async free, deinit | replacing a definition under live widgets; a free that is deferred, then overtaken |
| style storage and theming (`lv_xml_style.c`) | `style_ll` of each scope; raw `lv_style_t *` in widgets; tokens of colors; `transition_scale` | register a style, look one up, re-apply tokens, rescale transitions | no widget may outlive what it points into; a color must follow its constant and nothing else |
| subject registry (`lv_xml.c`, `lv_xml_component.c`) | `subjects_ll` with an `owned` bit, `subject_expr_ll` with observer handles | `<subject>`, `<subject_expr>`, register, unregister, free of a scope | four ways to release a subject, three kinds of readers |
| reactive bindings (`parsers/lv_xml_obj_parser.c`, `lv_xml_bind_compose.c`) | groups per (object, kind, bits), a share per binding, observers | bind, observe, delete | re-entrance; several writers of one bit; order of delete hooks |
| expressions (`lv_xml_expr.c`) | a tree with raw subject pointers | tokenize, parse, evaluate, bind, unbind | precedence, limits (128 tokens, 32 subjects); observing all that is read |
| view parser (`lv_xml.c`) | `parent_ll`, `pcdata_ll`, the current item and view | extract `<view>`, start tag, end tag, text | one push per pop on every path; finding the end of the view |
| fragments `<repeat>`, `<if>` (`lv_xml.c`) | a capture, a record with roots and observer, `in_rebuild` | capture, replay, retain, rebuild, two ways to be freed | rebuild inside a notification; one buffer replayed several times |
| metadata parser and registries (`lv_xml_component.c`, `lv_xml.c:550`) | the scope being filled, `section`, `context`, lists per scope | `<const> <font> <image> <subject> <styles> <timeline> <gradient> <api>`, register, get | a parse that breaks off; what an open context collects; first or last write wins |
| name index (`lv_xml_component.c:264`) | open-addressed table, `failed` | insert, remove, find | removal across the wrap; growth that fails |
| timelines (`lv_xml.c`, `lv_xml_component.c`) | timelines of a scope, those of an instance | declare, include, instantiate | duplicates, missing parts |
| params, constants, composed attributes (`lv_xml.c:1126`, `2087`) | none | resolve | precedence of parameters, defaults, constants; through instances and replays |
| attribute check (`lv_xml_attr_check.c`) | misses and marks per attribute | begin, enter, miss, consume, end | silence of every chain, across nested elements |
| loader, translations (`lv_xml_load.c`, `lv_xml_translation.c`) | loaded archives, the asset prefix, packs | load a path or an archive, unload | a failure in the middle |
| test runner (`lv_xml_test.c`) | steps, `step_act`, test display, tick callback | register, init, run, run to, stop | calls in any order; giving back what testing mode took |
| XML parser (`libs/expat`) | prolog state, tables for groups and attributes, declarations, tags | one `XML_Parse()` of a whole text | accepting exactly the grammar; tables at their limits |
| update, utilities, widget parsers | little | | not modelled, see 7 |
| LVGL | external | | deletion in two phases, order of observers |

Interaction: the metadata parser fills a scope; `lv_xml_create()` walks its view
and creates objects that point into styles and subjects of the scope, of the
globals and (through `component.style`) of other components. An instance holds
its scope by a count. Bindings and fragments observe subjects, and go by a
delete hook on a widget. Deinit frees whatever is left.

What makes each part correct, in one line: no object points into freed style
storage; no subject that can change notifies or is read through something
freed; a widget wears a state exactly if one of its conditions holds; the
parser's stack is balanced on every path; the index is the list it abbreviates; a
failed load leaves nothing half there; what an author wrote means the same wherever
it is resolved.

`PROJECT.json` lists the hazards at their lines.

## 2. Modules

| module | models |
|---|---|
| `StyleStorage` | the promise: storage in use is not released |
| `ScopeLifecycle` | the scope registry and the trees of instances; implements `StyleStorage` |
| `ScopeLifecycleProofs` | proofs about the two |
| `ReactiveBindings`, `ReactiveProofs` | subjects, derived subjects, bindings, composition groups; proofs |
| `SubjectRegistry`, `SubjectRegistryProofs` | records, ownership and release of subjects; proofs |
| `Fragments`, `FragmentsProofs` | the view parser's stack and the fragments of one instance; proofs |
| `NameIndex` | the hash index beside a list |
| `Metadata` | one document after another into the registries of a scope, and an instance's timelines |
| `Theming` | colors that follow constants, transitions |
| `DeclarationsProofs` | proofs about these two: what a scope declares |
| `Loader`, `TestRunner` | packs, archives, translations; tests on what was loaded |
| `TestbedProofs` | proofs about these three, which one run checks together |
| `Expressions`, `ViewText`, `AttrCheck`, `Attributes` | pure: operators for each of these algorithms |
| `Resolution`, `Authored` | views inside views over `Attributes`; what an author types, and what it means |
| `XmlRoles`, `XmlDocument`, `XmlDocumentProofs` | the prolog's role handlers; a document, token by token; proofs |
| `XmlTokens` | the scanners, character by character |
| `Patterns`, `XmlGrammar`, `XmlLexemes` | regular expressions; the productions of XML 1.0, the properties of the two |
| `Iteration` | lemmas about loops, which the proofs share |
| `MC...` | instances of these for TLC |

### ScopeLifecycle

State: `st` says which list a scope is on (`live` = `component_scope_ll`,
`pending` = `pending_free_scope_ll`), `cnt` is `instance_cnt`, `insts` is
`instance_ll` as the set of roots, `borrowed` the `styles_borrowed` bit, `index`
the name index, `freeQ` the queued `scope_free_async_cb` calls. Objects have a
position in the tree (`within`), the scopes whose styles they point into
(`holds`), and the delete hook with its record (`hook`). `stack` is the nest of
`lv_xml_create_in_scope()` calls.

Actions: `Register` with its failure `RegisterFails`, `Unregister`, `CreateBegin`,
`AddChild`, `CreateEnd` or `CreateFails` for a view; `Delete` and `Destroyed` are the
two phases of `lv_obj_delete()`, the hooks first and the objects after;
`ScopeFreeAsync` and `SinkDelete` are the two timer calls; `FragRebuild` moves an
expansion to the top layer; `Reparent`, `Orphan` and `LoadScreen` are the
application's; `Deinit` is `lv_xml_deinit()`.

`Env` turns on what an application may or may not do. The general run enables
everything except a second screen, and the properties that need more discipline
state it: `HoldersSafe` and the refinement need views that use only the styles of
their own scope (no `lend`) and objects that stay in their view (no `orphan`, `frag`).

Left out: re-initialisation after deinit; the reuse of an address by a new
allocation; the name `globals`, which is never retired.

### ReactiveBindings

State: `val` of each subject; `def` of the derived ones; for each binding its
condition, its share (`grp`, `slot`) and what it is subscribed to; for each group
whether it is allocated, its `held` mask and what the object wears (`worn`).
`stack` is the C stack of notifications and deletions, `todo` the observers that a
notification has still to call. The order of the observers of one subject is left
open, which covers both the registration order and the changes LVGL's
re-entrant notification makes to it.

Actions: `SetSubject` and `Notify` set a subject and start a notification;
`ObserveBinding` and `ObserveDerived` run one observer, `Notified` returns from the
notification; `SubjectExpr` and `Bind` create; `Delete`, `DeleteHooks`, `Deleted` are
the deletion of a widget, hook by hook; `Touch` is the application writing the bits
itself. A handler that an observer's write raises may do any of the first group
(`reenter`), to a nesting of `MaxNest`.

Left out: allocation failure of a group or a share (the code asserts on it); more
than 32 distinct subjects in an expression; `bind_style_if`, which is not composed;
groups of one object whose bits overlap; the failed allocations of a `<subject_expr>`
(`lv_xml_component.c:1372-1413`), after which the subject is there and follows nothing: in
`SubjectRegistry` a plain `Subject` where the context or the record fails, and `oom` where the
handles do.

### SubjectRegistry

State: `rec` and `own` are the entries of `subjects_ll`, `sub` what became of each
subject, `expr` the entries of `subject_expr_ll` with the handles they retain,
`obs` the observers that are attached, `inst` and `cond` the widgets.

Actions: `Subject` and `SubjectExpr` are the two metadata elements, `ParseBegin` and
`ParseEnd` the parse around them; `AppRegister` and `AppUnregister` are the public
calls; `Create` and `Delete` a widget with a condition; `Retire`, `FreeAsync` and
`Drain` the three ways to the free of a scope, which `DeinitBegin` and `DeinitEnd`
bracket.

Left out: component names (`ScopeLifecycle` has them); more than one condition per
widget; values. `Env` names what the ordinary run supposes not to happen: the
application does not release by name what an expression still reads (`inputs`) nor a
derived subject (`derived`), deinit is called without widgets (`instances`) and without
a retired scope whose expressions read the globals' own subjects (`held`). Two of these
are violation runs. The ordinary run does include a component whose XML breaks off
(`malformed`): nobody frees what it left, and `LeftBehind` states what is still true.

### Fragments

State: `doc` is the document as far as it has been read, each tag with what a
reader expects of it (the widget around it, the fragment around it); `open` is what
expat has open. `cap` is the capture in `state->context`: the fragment, `base_depth`, the
buffered `events`, `else_split`, `skip_nested`. `stack` is the C stack, whose parser
states have `parents` (`parent_ll`), `item`, and the replay they are in; `rec` is
`frag_ll`; `obj` the objects, `sunk` under a sink of `xml_frag_teardown()`.

Actions: `StartTag`, `EndTag` and `EndFragment` are the two handlers while the document
is parsed, `Replay`, `ReplayAgain` and `ReplayDone` the loop of `xml_frag_expand()`, one
event at a time, since creating a widget can run handlers; `SetSubject`, `Observe` and
`Notified` a change of the subject; `Delete`, `Sweep`, `SubjectGone` and `ParseFails` the
ways it ends. The document is chosen tag by tag, so every document within the bounds
is parsed.

A record has two things to give back that others may give back before it: `hook`, the
delete hook on the view root, and the observer. `obs` says whether the observer is there,
`handle` whether the record keeps a pointer to it. The subject frees its observers and tells
no record (`SubjectGone`), LVGL unsubscribes those of a widget that is deleted (`Delete`), and
the free of a scope removes what its handles point to (`Sweep`), so that it may free
one twice (`twice`). A scope with instances is freed at deinit only, where the globals go first
and the retired scopes last: a `Sweep` after the subject is `drained`, which the run leaves out
(finding 11).

`TreeCurrent` compares the objects of the instance with the document and the value of
the subject, once all calls have returned. It leaves out a fragment that cannot follow
its subject (no memory, the subject gone) and one whose last rebuild was refused
by `in_rebuild` (`missed`): the code drops that change, by design and until the next one.

Left out: slots and components as tags, inline text, failed allocation of a stack node
or an event, conditions over several subjects, a fragment over several instances
(records of different instances share nothing but the list they are on).

### NameIndex

State: `list`, the list newest first; `tab`, the slots, count and `failed` of the
index; `hash`, any assignment of hash values; `kind`, whether a name may be listed
twice. Actions insert, with the growth the load calls for, succeeding or failing
(`failed`, after which lookups walk the list), remove with the backward shift, and
clear. `FindsFirstListed` says a lookup is the first record of the name in the list. Every
loop of the code (probe, backward shift, rehash) is a function over its turns.

### Metadata

State: `doc`, the document so far; `open`, `section`, `context` and `work` (the parser's
`state->scope`, a copy); `scopes`, what is registered; `inst`, the timelines of
the last instance. Actions: a start tag, an end tag, the end of a document or its
breaking off, the failed allocation of a record, calls that register, and the creation
of an instance. `MetadataMatches` rebuilds the registries from the document, with no
notion of section or context, and compares. A gradient takes the first `MaxStops` stops, and
drops those after them as `LV_GRADIENT_MAX_STOPS` says. `Mishaps` without `latch`: a timeline is not
declared twice nor without a name (finding 7).

### Theming

Three parts, one a behaviour. *styles*: constants of the globals, their index and the copy
a document works on, the colors of a named style of each owner with their tokens.
*inline*: a widget's own colors with the eight slots that remember constants, and other
code that paints it. *motion*: the attributes of a transition in any order, shorthand
and longhand, and the scale. `NamedFollow` and `InlineFollow` say that after a
re-application a color is what its author wrote: the constant's present value, or the value
itself; a color other code painted stays. `Env` without `own` and `refused` (findings 8, 9).

### Loader and TestRunner

`Loader`: `lib` (components, subjects, packs, the prefix), `loads`, `blobs`, `buffers`; actions
load a path, a missing path, an archive, an archive whose scan breaks off after any
file, and unload (a parser that expat cannot allocate, `lv_xml_translation.c:128-132`, is left
out). `TestRunner` adds `bed` (the runner's static `test` and what it
saved), `world` (subject values, language, screens) and a history of what was registered
and begun; an action is one call of the application: register a test, init, next step,
run, run to a step, stop, a click, a set subject. `VerdictsExact` computes from the
document and the world the run began with what each step should have said.
`LeftInOrder`: the tick callback, the display, the cursor and the screens are as
testing mode found them, and no screen is deleted twice.

### Expressions, ViewText, AttrCheck, Attributes, Resolution, Authored

The first four are operators named after the functions of the code. `Authored` types
a text a piece at a time, `ExpressionMeans` parses it by a grammar of its own (the
longest lexemes, the weakest operator outermost, its last occurrence the root),
`ViewExtracted` knows where the typed `<view>` began and ended. `Resolution` builds views
inside views: each element is a structured value (`Written`), spelled into text for
the code's operators and evaluated directly for `ResolvedAsWritten`. `ReportsOnlyUnknown`
compares the attribute check with what the chains of each widget know.

### XmlRoles, XmlDocument, XmlTokens

expat is a library, but its code is part of this repository and every document goes
through it. `XmlRoles` is `xmlrole.c`: each handler a record of its rules, each rule a case of
its switch. `XmlDocument` is the loop of `doProlog()`, `doContent()` and the epilog with
what a role does: groups, declarations, default attributes, entities, tags, stopping
at the root. `XmlTokens` is `xmltok_impl.c`: each scan function the automaton of its switches.
`TablesSafe` and `CallsNest` are about the parser's own state and stand in `XmlDocument`;
`XmlGrammar` and `XmlLexemes` state the languages by the productions of XML 1.0 with
`Patterns`, and never look at the handlers: `AcceptsGrammar` and `ScansGrammar` compare on every
token sequence and every text within the bounds.

Left out: encodings other than UTF-8, namespaces, suspended parses, external
subsets with parameter entities, and the expansion of entities, which `XML_GE` 0
compiles out.

## 3. Runs

| run | bounds | shows |
|---|---|---|
| `scope_lifecycle` | 3 scopes, 2 names, 3 objects, depth 2 | own instances keep their scope; counts, hooks, index and queue exact |
| `scope_refinement` | 3 scopes, 2 names, 2 objects, 2 screens | `StyleStorage` is implemented; retired scopes are reclaimed |
| `reactive_bindings` | 3 bindings on 1 triple, mask of 2, 1 input, 2 derived | composition, settling, shares |
| `subject_registry` | 1 scope and the globals, 2 names, 3 made subjects, 1 of the application, 1 widget | ownership, targets, reads, handles |
| `subject_derived_released` | the same, `derived` | finding: unregistering a derived subject |
| `fragments` | 4 tags and an `<else>`, counts 0 and 2, 16 objects, 2 notifications within one another | balance, placement, currency, records |
| `lookups_and_tests` | index: 3 names, 2 copies, 2 slots at first, colliding hashes; packs: 3 directories, 2 archives, 4 calls; tests: 4 documents, 3 screens, 6 calls | lookups; nothing half loaded; verdicts; testing mode given back |
| `metadata` | 6 tags and calls over 2 names, 2 stops a gradient, six families of tags, broken, out of memory, bare | registries as written, instances, globals |
| `theming` | 2 constants, 2 colors, 2 properties, 1 inline slot, 2 attributes | colors follow, transitions as written |
| `xml_document` | up to 7 tokens a declaration (9 for attribute lists), 9 families, groups of 2, attributes of 1 at first | the grammar, tables, nesting, first declarations |
| `xml_lexemes` | 18 families of texts, 4 to 13 characters | tokens, normalization, character references |
| `authored_texts` | expressions of 4 to 7 pieces, documents of 4, views 2 deep, 3 attributes | meaning of expressions, extraction, resolution, reports |

`subject_derived_released` is a violation run. Seven more configurations show the other
findings and are checked by hand with `tlc -config X.cfg M`: `ReactiveSharesFreed`
(MCReactiveBindings), `SubjectDeinitOrder` (MCSubjectRegistry), `MetadataLatch` (MCMetadata),
`TestbedCreated` (MCTestbed), each with the one property it violates; `ScopeBeyond`
(MCScopeLifecycle), `ThemingBeyond` (MCTheming) and `FragmentsBeyond` (Fragments), each with
two, which `-continue` reports both.

The bounds: three scopes give an old, a current and a new definition of one name,
or two of one name and a lender; three objects a root, a child view and a sibling
or sink; a mask of two and three bindings reach the share beyond the mask, which
has 32 bits in the code; `a`, `d` derived from it and `f` derived from `d` are the
smallest chain, and `a and d` the smallest condition with a glitch. Two names and
three made subjects give a shadowed global, a chain and a replacement. The proofs
lift the models of section 5 to any bounds. Four tags are `<view>` and three more: two
fragments with an object in one, one in the other, a fragment with two objects or an object in an
object, and with the `<else>` an `<if>` with both branches; a count of 2 is the first that repeats. Identities of one kind are
interchangeable and are symmetry sets, except where a run checks liveness.

The tables that grow start small (2 slots of the index for 64, 2 groups for 32, 1 attribute
for 16, 1 inline color for 8), so that they grow, fill and wrap within the bounds. Six tags
are a block, two of its elements with a part each, and a call; or a timeline, an
animation, a second of both, an inclusion and the view; or a gradient with a stop more than
the two it has room for, as `src/tests/lv_conf.h:583` sets the limit. Nine tokens are a whole
attribute declaration behind an element, and seven a group with a group in it. Four pieces of
a document put a comment, a section or an instruction before, inside and behind
the view; five of an expression hold three operands and two operators of any levels. Six
calls register, initialise, step, interrupt and start again.

`TypeOK` of `ScopeLifecycle`, `ReactiveBindings`, `SubjectRegistry`, `Theming` and
`XmlDocument` are proved; those of the other modules hold in the same runs when listed as
invariants, and are left out of the configurations for time. The inductive invariants of the
proofs were checked the same way before they were proved.

Fairness is weak fairness of the timer calls (`lv_timer_handler()` is called in the
application's main loop) and of the return of what was begun: a parse, a deletion,
a notification. No fairness is assumed of the application. `RetiredReclaimed` is
the one liveness property; the temporal violation runs use the same
specification.

## 4. Findings

Number 4 is a run; the others have the configuration that shows them (section 3).

1. A scope that lent a style is freed with its last own instance; the private
   header says it is held until deinit.
2. The queued free of a scope does not wait for the condemned objects of a
   fragment, which hang on the top layer until `lv_obj_delete_async()` runs.
3. The group of a composed binding is freed by the first delete hook of the
   widget; a delete handler that sets a subject between that hook and the
   unsubscription of a later binding makes this binding write through the group.
4. `lv_xml_unregister_subject()` on a `<subject_expr>` leaves the observers on
   its inputs, which then write into the released subject.
5. Deinit frees the globals before the held scopes, whose expression records
   retain handles of observers that went with the globals' subjects.
6. An unknown tag at the top level of a bound fragment makes no root, while what it
   wraps is attached to the parent: a rebuild adds a copy and removes none (`FragmentsBeyond`).
7. A timeline that is declared again, or without a name, does not open a context, nor close
   the one before it: its animations go to the timeline opened before
   (`MetadataLatch`; the comment `lv_xml_component.c:1431` says they are not added).
8. While a globals document is parsed its constants are not found through the
   registered scope, so a style of the document that names one is not noted and does not
   follow it (`ThemingBeyond`; `README.md:66` promises it for named styles).
9. A transition shorthand that is refused half way has overwritten what longhand
   attributes before it set (`ThemingBeyond`; `lv_xml_style.c:681`).
10. A test is started from a screen that a `<screen_create_event>` made: loading the test's screen
    deletes the old one in its unload handler, and `lv_xml_test_run_init()` deletes it again
    (`TestbedCreated`; `lv_xml_test.c:231`, while `lv_xml_test.h:88` says no further preparation is needed).
11. Deinit frees the globals, with the subjects they own and the observers of these, before the
    retired scopes that instances still hold. A `<repeat>` or `<if>` of such an instance over a
    subject of the globals has a record there, which then removes the observer that is freed
    already (`FragmentsBeyond`; `lv_xml_component.c:644-676`, `lv_xml.c:2064`, while
    `lv_xml_component.c:1012` and `lv_xml.c:2058` have the subject still valid). It is to
    fragments what finding 5 is to expressions.

Read in the code while modelling, and not shown by a run:

* Two components that extend each other recurse on creation, and the
  lookup of an extended widget's processor loops.
* A fragment record keeps its scope by value: a subject registered later is not found by
  a rebuild, and one unregistered from the head of the list is still walked
  (`lv_xml.c:1965`, `1878`).
* A view whose end tag is written `</view >` is not found, so the component registers
  without one.
* A constant behind `grid_column_dsc_array` is split in place, which truncates it.
* `lv_xml_test_get_step_next()` after a failure is the step after the failed one
  (`lv_xml_test.h:74` says which step failed); `run_to` to an earlier step succeeds at
  once; a step about an unknown subject is dropped, so a comparison passes; steps
  keep raw subject pointers; two `run_init` in a row lose the saved tick callback.
* The asset prefix stays on an archive whose load failed or that was unloaded.
* The attribute check says it declines when armed, and re-arms; its limit
  counts names and values.
* `lv_xml_create()` of a component applies the caller's attributes to the outermost
  object unfiltered, those of its `<api>` included.

## 5. Proofs

From the assumptions on the constants only, for any finite or infinite sets of
scopes, objects, names, bindings, subjects, constants, words:

| theorem | property | if |
|---|---|---|
| `TypeCorrect`, `ReactiveTypeCorrect`, `SubjectTypeCorrect`, `ThemingTypeCorrect`, `DocumentTypeCorrect` | `TypeOK` of their modules | |
| `HooksAlwaysValid`, `CountsAlwaysExact`, `LookupsAlwaysExact`, `QueuedFreesSound`, `OwnInstancesSafe` | the scope registry's own state | |
| `HoldersAlwaysSafe`, `KeepsStoragePromise` | no reader of freed storage; `StyleStorage` is implemented | no `lend`, `orphan`, `frag` |
| `SharesStayDistinct`, `DerivedAlwaysSettles`, `BindingsAlwaysCompose`, `NothingClearedFalsely` | composition of states | |
| `GroupsOutliveBindings` | no write through a freed group | no delete handler sets a subject |
| `TargetsAlwaysAlive` | nothing writes into a released subject | no `derived` |
| `ReadsAlwaysAlive` | nothing reads a released subject | no `inputs`, `held`, `instances` |
| `HandlesAlwaysAttached` | retained handles are those of attached observers | no `inputs`, `held` |
| `OwnershipAlwaysKept` | one owner; what is borrowed is never taken | |
| `GlobalsAlwaysKept` | nothing leaves the globals or changes its place there | |
| `MetadataTypes` | the types; the context names a listed timeline | |
| `ScopesAlwaysMatch`, `InstancesAlwaysPlay` | a scope holds, and an instance plays, what its documents declare | no `latch` |
| `ColorsAlwaysFollow` | named styles follow their constants | no `own` |
| `InlineAlwaysFollows` | inline colors follow, painted ones stay | |
| `MotionAlwaysAsWritten` | transitions are as written | no `refused` |
| `TablesAlwaysSafe`, `CallsAlwaysNest` | expat's tables and calls | |
| `LookupAlwaysRight` | the index is the list it abbreviates | |
| `LoadsAlwaysWhole`, `TestsAlwaysWhole` | nothing is left half loaded, by loads alone and between tests | |
| `RunnerAlwaysInOrder` | testing mode is given back, screens are neither leaked nor deleted twice | no `created` |
| `VerdictsAlwaysExact` | the steps and verdicts are those the document means | no file named `__test__` |
| `ObjectsAlwaysPlaced` | objects hang where the document says; the parser's stack is balanced | |
| `RecordsAlwaysSound` | a fragment's record is there with its instance, its roots in the tree; no observer is removed twice | no `drained` |

Each condition but that of `VerdictsAlwaysExact` is on `Env` (`Mishaps` in `Metadata`) and is one under which a
run shows a violation (section 4), or what the code's own contract excludes. The exception
(`Reserved`) keeps the name under which the runner registers every test (`LV_TEST_NAME`) free of the application's
files: the component of such a file would be what the runner creates.

* `ScopeLifecycleProofs`. The inductive invariant `IInv` adds to the properties that the
  tree is a forest (`TreeOK`; deletion of a subtree removes exactly the hooks below its
  root), that the views under construction are allocated and not tracked (`StackOK`), that a
  tracked root keeps its hook (`MadeOK`), that unused scopes have no instance (`Fresh`) and
  that the sets counted are finite (`FiniteInsts`). Counting is done once, in lemmas about
  cardinality, and cited per action.
  For the storage promise the strengthening is `HoldersOwned`: what a live object points
  into belongs to a tracked or open view around it, so that a count of zero means no reader.
* `ReactiveProofs`. The inductive invariant says, of what is not settled, that it is still
  to be told: a binding whose share disagrees with its condition is in the `todo` of some
  subject (`BindingsTold`), and so is a derived subject that differs from its expression
  (`DerivedTold`). Empty stack, empty `todo`, nothing unsettled.
* `SubjectRegistryProofs`. A subject the parser made is named by one record, whose scope
  releases it (`OwnersSound`), and unless the globals own it is read from that scope only
  (`ReadsLocal`); who observes it is who keeps the handle (`ReadersSound`), and what it feeds
  is there (`FeedsSound`). So whoever frees a scope finds all readers of its subjects
  among the expressions of the scope, which it drops first. `InputsKept` and `DeinitQuiet`
  carry the conditions on `Env`.
* `DeclarationsProofs`, the metadata parser. Two invariants. `MetadataStructure` holds whatever
  happens: the open elements are a chain from the root of the document under way, `section` is
  the one that the innermost of them needs (`SectionSound`; a `<note>` does not count), records
  stem from elements that were read, and the copy of the globals that their document is parsed
  into holds all that the globals hold (`LongerScope`), which is why taking its place loses
  nothing, however the parse ends. `MetadataFiled` says what each list of each scope is in terms
  of the elements alone (`Filed`): the elements the scope was given (`GivenIn`), filtered by
  kind and by the constants its lookups see (`SeenIn`), in their order, each with what
  belongs to it. It is not inductive by itself. A start tag adds one element to the scope under
  way (`Grown`) and must leave every other list what it is: a scope was only given documents
  that have ended (`FromSound`), so what it holds does not mention the new element (`Cut`,
  `Rests`). The handlers find the record that a stop or an animation belongs to
  by a pointer, so the invariant says that the open gradient is the last one listed
  (`GradientHome`; `Kept` is what a gradient keeps of its stops, and a stop more changes it as
  `Stopped` changes the list, `KeptIs`) and the open timeline the one of the context (`TimelineHome`). The last is what
  `latch` breaks. Where a constant is looked up, a new constant of the globals must not change
  what an earlier reference meant: `Known` asks for one declared before the reference.
  Without memory for a record only `MetadataStructure` is claimed, as in the properties. Both
  invariants were checked with TLC on the instance of the run `metadata` before they were proved.
* `DeclarationsProofs`, theming. A color and the token beside it are written together (`StyleSound`,
  `ObjSound`), so a token names the constant its color was written as, and a change of the
  constant finds all of those; `IndexSound` is the load of the constants' index, whose failure
  changes nothing, `ViewSound` the parser's copy of the globals' list. `MotionSound` follows
  the loop over the attributes turn by turn: what has been written so far is what a reader
  of the attributes so far would say.
* `XmlDocumentProofs`. The rules of `XmlRoles` are checked once for what the parser relies on
  (`HandlerSound`: where a group may open and close, what leads to the backstop); then
  `GroupSound` says that the connectors' table has an entry for every group that is open, and
  `TablesSafe` follows for any nesting. A first size of the table of one would not do: the
  parser writes the entry of a group before it looks at the size for the next. `NestSound`
  relates the tag stack and the calls made: the element at height k was opened by a call at
  depth k - 1, and the depth has not been there since.
* `TestbedProofs`, the index. `SoundBut` says that no empty slot lies between where a record's hash
  puts it and where it is, except for the slots a removal has still to look at; each turn of
  the backward shift takes one off. That the probe ends needs an empty slot, which the load of at
  most a half gives by counting. `IInv` adds that the table holds exactly the first listed
  record of each name. The arithmetic is that of slots that wrap around (`Wrap`).
* `TestbedProofs`, the loader. `LoaderSound` carries through the loop over a directory's files,
  broken off after any of them, that every pack is that of a file read to its end and
  that the prefix is a directory's.
* `TestbedProofs`, the runner. `InOrder` says which of the two, the application or LVGL, has the tick
  callback (`BedSound`), that the steps are elements of the registered document (`Shape`), and that of
  all screens an event made only the active one is alive (`WorldSound`). A click may create or
  load a screen, so each step passes through a state where two such screens are alive
  (`World`, with the set of those that may be). For the verdicts, `ReadMeans`: the
  parser's flag for being inside `<steps>` and what it drops agree with what a reader takes for
  the steps (`MeantOf`), element by element. Then `Verdict` follows the run: the document's steps carried
  out in order from where it began (`Outcome`) are a function of the document and that
  world only, the world is its value at `step_act`, and each step already run has its
  status (`Exact`). A run to a breakpoint stops at the first failure, so only the last
  step of it can have failed (`Answered`); `lv_xml_test_run_all()` goes on (`AllKept`).
* `FragmentsProofs`. `WellPlaced` says where an object hangs and nothing of the calls under way
  that will hang the next one, so the invariant is about those. The parent stack of a frame
  stands for the elements open above the frame's base (`Stands`): the widget of each, or
  of the nearest around it when the tag is unknown. The events of a capture go through
  the same stack of elements as they are captured (`Trace`) and in each replay (`Plays`,
  `Taken`), whichever of the two branches a replay takes, and `CapSound` relates the marks of
  the capture (where `<else>` was, what is skipped) to the document. Handlers that run inside a
  replay can tear a fragment down, rebuild it or begin another: what was made for one
  fragment is never a parent in the expansion of another, the fragment of a record is
  behind the parser and has one record, and two frames never rebuild the same record
  (`RecSound`, `StackSound`), so a teardown takes nothing away from a frame under way and
  leaves no root of a record behind. That no observer is removed twice is a second invariant
  (`HandlesSound`): as long as the subject is there, a record that keeps a handle has its
  observer, and without `drained` a scope is only freed while the subject is there.
  `StackBalanced` then counts the open elements below the
  frame (`Balanced`).
* `Iteration`. The library's induction takes an operator as a parameter, so loops are followed
  another way: if a turn failed there would be a least one (`Walked`, `Least`, from the
  well-foundedness of inclusion on finite sets), and a recursive function over 0 .. n is what
  its equation says (`Iterates`).

Only model-checked: `TreeCurrent` of `Fragments`, which compares numbers of objects with a
whole history of rebuilds; what compares with a
grammar or a reader of the text (`AcceptsGrammar`, `ScansGrammar`, `TokensMean`, `DeclaredFirst`
and the properties of `Authored` and `Resolution`), which is defined with RECURSIVE
operators or by induction over the text; `RetiredReclaimed` (liveness under fairness and
`ENABLED` are beyond this prover); and the shape of the index's size, a power of two, which no
property needs.

## 6. Plan

1. `Fragments`: slots as tags and the allocation failures of the stack.
2. The snapshot of the scope that a fragment record keeps, over the registries of
   `Metadata`.

## 7. Not modelled

* `lv_xml_update.c`, `lv_xml_base_types.c` and the widget parsers: tables of names with the
  setter or the number each stands for. There is no state and no order in them, and
  a property could only repeat the table. What they share, the walk over attributes and
  the check for unknown ones, is in `Attributes` and `AttrCheck`; what carries state in
  `lv_xml_obj_parser.c` is in `ReactiveBindings`, `Theming` and `TestRunner`.
* Bindings of styles (`bind_style`, `bind_style_if`), text and values: each has one writer
  per target, or, for styles, the last one wins by design.
* expat's hash tables and string pools, and what `lv_xml` never calls of it.
* The build, the tests and their harness: no part of the running program.
