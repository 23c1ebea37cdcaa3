------------------------------ MODULE TestRunner ------------------------------
(***************************************************************************)
(* The test runner (lv_xml_test.c) on the components a loader registered:   *)
(* a test is a component with a <steps> element, and its steps click what   *)
(* is on the screen, set and compare subjects of the globals, switch the    *)
(* language and compare screenshots.  What a click does is in the event     *)
(* elements of lv_xml_obj_parser.c: they set subjects, and load screens by  *)
(* their name or create them.                                              *)
(*                                                                         *)
(* A screen shows one component; a picture of it is the component and the   *)
(* language.  Values are small integers; waiting, moving and the mouse      *)
(* buttons do nothing here.  Calls of the application are counted.          *)
(***************************************************************************)
EXTENDS Loader

CONSTANTS
  Tests,      (* documents of tests: [extends, body, whole]                *)
  Screens,    (* the addresses of screens                                  *)
  Boot,       (* the screen that is active at the start                    *)
  Home,       (* its name                                                  *)
  Values,     (* what the application sets a subject to                    *)
  MaxCalls,   (* bound: calls of the application                           *)
  Env         (* what the application does besides: "created" it starts a run from
                 a screen that a <screen_create_event> made                *)

TestName == "__test__"

ASSUME RunnerAssumption ==
  /\ Home # Nil /\ Boot \in Screens /\ Values \subseteq Int /\ MaxCalls \in Nat
  /\ \A t \in Tests : Len(t.body) \in Nat
  /\ Env \subseteq {"created"}

VARIABLES
  bed,        (* the runner: [steps, act, display, cursor, saved, tick], see below *)
  world,      (* what steps work on: [val, lang, screens, active, twice]   *)
  calls,      (* calls made so far                                         *)
  doc,        (* (history) the test registered last, and the subjects there were then *)
  began,      (* (history) the world and what was registered when the run began *)
  said        (* (history) the last lv_xml_test_run_to(): [from, ok]       *)

testVars == <<lib, loads, blobs, buffers, bed, world, calls, doc, began, said>>

\* `steps` are those of the test, each with its `passed`; `act` is step_act; `display`
\* and `cursor` say whether there is one; `saved` is tick_cb_original; `tick` is
\* whose tick callback LVGL has, "app" or "none".
NoBed == [steps |-> <<>>, act |-> 0, display |-> FALSE, cursor |-> FALSE,
          saved |-> "none", tick |-> "app"]

Unused == [live |-> FALSE, made |-> FALSE, name |-> Nil, shows |-> Nil, widgets |-> <<>>]

TestInit ==
  /\ LoaderInit
  /\ bed = NoBed
  /\ world = [val |-> <<>>, lang |-> Nil, active |-> Boot, twice |-> FALSE,
              screens |-> [s \in Screens |->
                 IF s = Boot THEN [Unused EXCEPT !.live = TRUE, !.name = Home] ELSE Unused]]
  /\ calls = 0
  /\ doc = [test |-> Nil, subjects |-> {}]
  /\ began = Nil
  /\ said = [from |-> 0, ok |-> TRUE]

--------------------------------------------------------------------------------
(* Screens and the events on them; l is what is registered.                  *)

ValueOf(w, s) == IF s \in DOMAIN w.val THEN w.val[s] ELSE 0
SetTo(w, s, v) == [w EXCEPT !.val = (s :> v) @@ @]

\* lv_obj_delete() of a screen; a second one of the same screen is noted.
Deleted(w, s) ==
  IF w.screens[s].live THEN [w EXCEPT !.screens[s].live = FALSE] ELSE [w EXCEPT !.twice = TRUE]

\* (mutant) a created screen stays when another one is loaded
LoadedKept(w, s) == [w EXCEPT !.active = s]

\* lv_screen_load(): the old screen is told, and goes if an event created it
\* (delete_on_screen_unloaded_event_cb).
Loaded(w, s) ==
  LET now == [w EXCEPT !.active = s]
  IN  IF s # w.active /\ w.screens[w.active].made THEN Deleted(now, w.active) ELSE now

\* The widgets of a component, without the handlers of subjects that are not there.
Built(l, n) ==
  LET all == l.comps[n].widgets
  IN  [k \in DOMAIN all |->
         IF all[k].does \in {"set", "toggle", "increment"} /\ all[k].on \notin l.subjects
         THEN [all[k] EXCEPT !.does = "nothing"] ELSE all[k]]

Fresh(w) == {s \in Screens : w.screens[s] = Unused}

\* "A screen is named after its component", also when a test extends that one.
Screen(l, n, made) ==
  [live |-> TRUE, made |-> made, name |-> IF l.comps[n].screen THEN n ELSE Nil,
   shows |-> n, widgets |-> Built(l, n)]

\* lv_obj_xml_screen_create_event_apply(), screen_create_on_trigger_event_cb().
screen_create(l, w, n) ==
  IF n \notin DOMAIN l.comps \/ Fresh(w) = {} THEN w
  ELSE LET s == CHOOSE s \in Fresh(w) : TRUE
       IN  Loaded([w EXCEPT !.screens[s] = Screen(l, n, TRUE)], s)

\* lv_obj_xml_screen_load_event_apply(): a screen of that name, looked up when the
\* event comes.
screen_load(w, n) ==
  LET named == {s \in Screens : w.screens[s].live /\ w.screens[s].name = n}
  IN  IF named = {} THEN w ELSE Loaded(w, CHOOSE s \in named : TRUE)

\* <subject_toggle_event> and <subject_increment_event> at their clicks.
subject_toggle(w, s) == SetTo(w, s, IF ValueOf(w, s) = 0 THEN 1 ELSE 0)

subject_increment(w, s, by, most, rollover) ==
  LET next == ValueOf(w, s) + by
  IN  SetTo(w, s, IF next <= most THEN next ELSE IF rollover THEN 0 ELSE most)

Clicked(l, w, h) ==
  CASE h.does = "set"       -> SetTo(w, h.on, h.v)
    [] h.does = "toggle"    -> subject_toggle(w, h.on)
    [] h.does = "increment" -> subject_increment(w, h.on, 1, h.v, h.rollover)
    [] h.does = "create"    -> screen_create(l, w, h.on)
    [] h.does = "load"      -> screen_load(w, h.on)
    [] OTHER                -> w

\* A widget that is shown under a condition is there to click while its subject is set.
Visible(w, h) == h.shown = Nil \/ ValueOf(w, h.shown) # 0

--------------------------------------------------------------------------------
(* Registration.                                                            *)

\* The subjects a step names are looked up in the globals when it is read.
Kept(subjects, e) ==
  CASE e.tag \in {"click_on", "set_language"}        -> e.on # Nil
    [] e.tag \in {"subject_set", "subject_compare"} -> e.on \in subjects
    [] OTHER                                        -> e.tag # "other"

\* start_metadata_handler(), end_metadata_handler(): what is in <steps>, in order.
\* `passed` is not set before the step has run.
stepsOf(subjects, body) ==
  LET upto[i \in 0 .. Len(body)] ==
        IF i = 0 THEN [inside |-> FALSE, steps |-> <<>>]
        ELSE LET acc == upto[i - 1] e == body[i]
             IN  CASE e.tag \in {"steps", "/steps"} -> [acc EXCEPT !.inside = (e.tag = "steps")]
                   [] e.tag \notin {"steps", "/steps"} /\ acc.inside /\ Kept(subjects, e) ->
                        [acc EXCEPT !.steps = Append(@, [does |-> e, passed |-> Nil])]
                   [] OTHER -> acc
  IN  upto[Len(body)].steps

WithoutTest(comps) == [n \in DOMAIN comps \ {TestName} |-> comps[n]]

\* lv_xml_test_register_from_data(): the old test goes first, whatever comes of the
\* new one; `act` stays where it was.
RegisterTest(t) ==
  /\ lib' = [lib EXCEPT !.comps =
       IF t.whole THEN Registered(@, TestName, [screen |-> FALSE, widgets |-> <<>>, extends |-> t.extends])
       ELSE WithoutTest(@)]
  /\ bed' = [bed EXCEPT !.steps = IF t.whole THEN stepsOf(lib.subjects, t.body) ELSE <<>>]
  /\ doc' = [test |-> t, subjects |-> lib.subjects]
  /\ began' = Nil /\ said' = [from |-> 0, ok |-> TRUE]
  /\ UNCHANGED <<loads, blobs, buffers, world>>

\* lv_xml_test_unregister().
UnregisterTest ==
  /\ lib' = [lib EXCEPT !.comps = WithoutTest(@)]
  /\ bed' = [bed EXCEPT !.steps = <<>>]
  /\ doc' = [test |-> Nil, subjects |-> {}]
  /\ began' = Nil /\ said' = [from |-> 0, ok |-> TRUE]
  /\ UNCHANGED <<loads, blobs, buffers, world>>

--------------------------------------------------------------------------------
(* A run.                                                                   *)

\* execute_step(): [w, ok].
execute_step(l, w, e) ==
  LET there   == w.screens[w.active].widgets
      reached == e.on \in DOMAIN there /\ Visible(w, there[e.on])
      done(x) == [w |-> x, ok |-> TRUE]
  IN  CASE e.tag = "click_on"  -> IF reached THEN done(Clicked(l, w, there[e.on])) ELSE [w |-> w, ok |-> FALSE]
        [] e.tag = "click_at"  -> done(IF reached THEN Clicked(l, w, there[e.on]) ELSE w)
        [] e.tag = "subject_set"        -> done(SetTo(w, e.on, e.v))
        [] e.tag = "subject_compare"    -> [w |-> w, ok |-> ValueOf(w, e.on) = e.v]
        [] e.tag = "set_language"       -> done([w EXCEPT !.lang = e.on])
        [] e.tag = "screenshot_compare" -> [w |-> w, ok |-> <<w.screens[w.active].shows, w.lang>> = e.v]
        [] OTHER                        -> done(w)

\* (mutant) a new run goes on where the last one was
run_initGoesOn(b) ==
  [b EXCEPT !.display = TRUE, !.cursor = TRUE, !.saved = b.tick, !.tick = "none"]

\* lv_xml_test_run_init(), what it does to the runner.
run_init(b) ==
  [b EXCEPT !.display = TRUE, !.cursor = TRUE, !.saved = b.tick, !.tick = "none", !.act = 0]

\* ... and to the screen: a test that extends a screen brings a new one and deletes
\* the old, any other is built on the active screen, emptied.
Staged(l, w) ==
  LET base == l.comps[TestName].extends
      s    == CHOOSE s \in Fresh(w) : TRUE
  IN  IF base \notin DOMAIN l.comps
      THEN [w EXCEPT !.screens[w.active].shows = Nil, !.screens[w.active].widgets = <<>>]
      ELSE IF l.comps[base].screen
      THEN Deleted(Loaded([w EXCEPT !.screens[s] = Screen(l, base, FALSE)], s), w.active)
      ELSE [w EXCEPT !.screens[w.active].shows = base, !.screens[w.active].widgets = Built(l, base)]

\* lv_xml_test_run_next(), on the runner and the world together.
run_next(l, r) ==
  LET i == r.b.act + 1
      x == execute_step(l, r.w, r.b.steps[i].does)
  IN  [b |-> [r.b EXCEPT !.steps[i].passed = x.ok, !.act = i], w |-> x.w, ok |-> x.ok]

\* lv_xml_test_run_to(): on until a step fails or the last one wanted has run.
run_to(l, r, last) ==
  LET go[n \in 0 .. Len(r.b.steps)] ==
        IF n = 0 THEN r
        ELSE IF go[n - 1].ok /\ go[n - 1].b.act <= last THEN run_next(l, go[n - 1])
        ELSE go[n - 1]
  IN  go[Len(r.b.steps)]

\* (mutant) a callback is given back also when no run had taken one
run_stopAlways(b) == [b EXCEPT !.display = FALSE, !.cursor = FALSE, !.tick = b.saved]

\* lv_xml_test_run_stop().
run_stop(b) ==
  [b EXCEPT !.display = FALSE, !.cursor = FALSE, !.tick = IF b.display THEN b.saved ELSE @]

--------------------------------------------------------------------------------
Now == [b |-> bed, w |-> world, ok |-> TRUE]

\* A run needs a test, a screen of its own to show it, and no run going on.
MayRun ==
  /\ ~bed.display /\ TestName \in DOMAIN lib.comps /\ Fresh(world) # {}
  /\ world.screens[world.active].made => "created" \in Env

RunInit ==
  /\ MayRun
  /\ bed' = run_init(bed)
  /\ world' = Staged(lib, world)
  /\ began' = [world |-> world', lib |-> lib] /\ said' = [from |-> 0, ok |-> TRUE]
  /\ UNCHANGED <<lib, loads, blobs, buffers, doc>>

Undisturbed == UNCHANGED <<lib, loads, blobs, buffers, doc, began>>

RunNext ==
  /\ bed.display /\ bed.act < Len(bed.steps)
  /\ LET r == run_next(lib, Now) IN bed' = r.b /\ world' = r.w
  /\ said' = [from |-> Len(bed.steps), ok |-> TRUE]
  /\ Undisturbed

\* A test without steps fails; an index beyond the last step means the last.
RunTo(step) ==
  /\ bed.display
  /\ LET last == IF step >= Len(bed.steps) THEN Len(bed.steps) - 1 ELSE step
         r    == IF bed.steps = <<>> THEN [Now EXCEPT !.ok = FALSE] ELSE run_to(lib, Now, last)
     IN  /\ bed' = r.b /\ world' = r.w
         /\ said' = [from |-> bed.act, ok |-> r.ok]
  /\ Undisturbed

RunStop ==
  /\ bed' = run_stop(bed) /\ said' = [from |-> Len(bed.steps), ok |-> TRUE]
  /\ UNCHANGED world
  /\ Undisturbed

\* lv_xml_test_run_all(): every step, also after one that failed.
RunAll ==
  /\ MayRun
  /\ LET all[n \in 0 .. Len(bed.steps)] ==
           IF n = 0 THEN [b |-> run_init(bed), w |-> Staged(lib, world), ok |-> TRUE]
           ELSE run_next(lib, all[n - 1])
         end == all[Len(bed.steps)]
     IN  bed' = run_stop(end.b) /\ world' = end.w
  /\ began' = [world |-> Staged(lib, world), lib |-> lib] /\ said' = [from |-> Len(bed.steps), ok |-> TRUE]
  /\ UNCHANGED <<lib, loads, blobs, buffers, doc>>

--------------------------------------------------------------------------------
(* The application, between runs.                                           *)

Load ==
  /\ ~bed.display
  /\ LoaderNext
  /\ UNCHANGED <<bed, world, doc, began, said>>

\* A click on what is on the screen, or a value set by other code.
Use ==
  /\ ~bed.display
  /\ \/ \E k \in DOMAIN world.screens[world.active].widgets :
          LET h == world.screens[world.active].widgets[k]
          IN  Visible(world, h) /\ world' = Clicked(lib, world, h)
     \/ \E s \in lib.subjects, v \in Values : world' = SetTo(world, s, v)
  /\ UNCHANGED <<lib, loads, blobs, buffers, bed, doc, began, said>>

TestNext ==
  /\ calls < MaxCalls /\ calls' = calls + 1
  /\ \/ \E t \in Tests : RegisterTest(t)
     \/ UnregisterTest
     \/ RunInit
     \/ RunNext
     \/ \E k \in 0 .. Len(bed.steps) : RunTo(k)
     \/ RunStop
     \/ RunAll
     \/ Load
     \/ Use

TestSpec == TestInit /\ [][TestNext]_testVars

--------------------------------------------------------------------------------
(* The properties.                                                          *)

\* The elements of a document that a reader takes for its steps: those between
\* <steps> and </steps>, save the ones that miss what they are about.
MeantOf(subjects, body) ==
  LET within(i) == \E b \in 1 .. i - 1 : body[b].tag = "steps"
                     /\ \A k \in b + 1 .. i - 1 : body[k].tag # "/steps"
      about(e) == \/ e.tag \notin {"click_on", "set_language", "subject_set", "subject_compare",
                                   "steps", "/steps", "other"}
                  \/ e.tag \in {"click_on", "set_language"} /\ e.on # Nil
                  \/ e.tag \in {"subject_set", "subject_compare"} /\ e.on \in subjects
      upto[i \in 0 .. Len(body)] ==
        IF i = 0 THEN <<>>
        ELSE IF within(i) /\ about(body[i]) THEN Append(upto[i - 1], body[i])
        ELSE upto[i - 1]
  IN  upto[Len(body)]

Meant == MeantOf(doc.subjects, doc.test.body)

\* What became of the steps is what the document says, carried out in its order from
\* where the run began, whether it runs step by step, to a breakpoint or through,
\* after whatever tests were registered and run before: no step of an old test is
\* left, none is skipped after a failure, none runs twice, and each status is its own.
\* And lv_xml_test_run_to() says "true: all steps were passed; false: a step failed"
\* (lv_xml_test.h:74) of the steps it ran.
VerdictsExact ==
  began # Nil =>
    LET done[i \in 0 .. Len(Meant)] ==
          IF i = 0 THEN [w |-> began.world, ok |-> TRUE] ELSE execute_step(began.lib, done[i - 1].w, Meant[i])
    IN  /\ Len(bed.steps) = Len(Meant) /\ bed.act <= Len(Meant)
        /\ \A i \in 1 .. Len(Meant) :
             i <= bed.act => bed.steps[i].passed = done[i].ok
        /\ bed.display => world = done[bed.act].w
        /\ \A i \in said.from + 1 .. bed.act :
             bed.steps[i].passed = (said.ok \/ i < bed.act)

\* A run leaves the application as it has to be.  Between runs LVGL has the
\* application's tick callback, and there is neither display nor cursor, also when a
\* run is stopped twice, before it began, or by a new test; and screens are neither
\* leaked nor deleted twice: the active one is alive, and of those an event created no
\* other one is.
LeftInOrder ==
  /\ bed.tick = IF bed.display THEN "none" ELSE "app"
  /\ bed.cursor = bed.display
  /\ ~world.twice
  /\ world.screens[world.active].live
  /\ \A s \in Screens : world.screens[s].live /\ world.screens[s].made => s = world.active
================================================================================
