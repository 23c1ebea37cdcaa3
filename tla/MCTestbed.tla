------------------------------- MODULE MCTestbed -------------------------------
(* Three questions about what is found by its name, in one run: the name index    *)
(* for any use of it, packs that load and fail to, and tests run on the components *)
(* of a pack.  `part` says which.                                               *)
(*                                                                            *)
(* The index starts with two slots, so that it grows twice; the hashes collide,   *)
(* and wrap around the end of each size.                                        *)
EXTENDS TestRunner, NameIndex

VARIABLE part

--------------------------------------------------------------------------------
Widget(does, on, v, shown) == [does |-> does, on |-> on, v |-> v, rollover |-> TRUE, shown |-> shown]

NoFile == [xml |-> TRUE, root |-> Nil, name |-> Nil, whole |-> TRUE, def |-> Nil, subjects |-> {},
           languages |-> <<>>, rows |-> <<>>]

Globals == [NoFile EXCEPT !.root = "globals", !.name = "globals", !.subjects = {"on"}, !.whole = FALSE]

\* A card: a button that switches the subject on and off, and one that counts, and is
\* shown while the subject is on; a button to a screen created at the click.
Card == [NoFile EXCEPT !.root = "component", !.name = "card",
         !.def = [screen |-> FALSE, extends |-> Nil,
                  widgets |-> "sw" :> Widget("toggle", "on", 0, Nil)
                           @@ "up" :> Widget("increment", "on", 2, "on")
                           @@ "go" :> Widget("create", "page", 0, Nil)]]

Page == [NoFile EXCEPT !.root = "screen", !.name = "page",
         !.def = [screen |-> TRUE, extends |-> Nil,
                  widgets |-> "back" :> Widget("load", Home, 0, Nil)
                           @@ "set" :> Widget("set", "on", 2, Nil)]]

Texts == [NoFile EXCEPT !.root = "translations", !.languages = <<"en", "de">>,
          !.rows = <<[tag |-> "dog", texts |-> "en" :> "Dog" @@ "de" :> "Hund"],
                     [tag |-> Nil, texts |-> <<>>], [tag |-> "cat", texts |-> "en" :> "Cat"]>>]

Bare == [Texts EXCEPT !.languages = <<>>]
Torn == [Texts EXCEPT !.whole = FALSE]

MCDirs == "pack" :> <<Globals, Card, Page>>
       @@ "words" :> <<[Page EXCEPT !.whole = FALSE], Torn, Texts, Bare>>
       @@ "odd" :> <<[NoFile EXCEPT !.xml = FALSE], NoFile, [NoFile EXCEPT !.root = "test"]>>

--------------------------------------------------------------------------------
Tag(tag, on, v) == [tag |-> tag, on |-> on, v |-> v]
Open == Tag("steps", Nil, 0)
Close == Tag("/steps", Nil, 0)

\* A test of the card, one of the screen, one that follows a created screen and
\* back, and one that breaks off.
MCTests ==
  { [extends |-> "card", whole |-> TRUE,
     body |-> <<Tag("press", Nil, 0), Open, Tag("click_on", "up", 0), Tag("click_on", "sw", 0),
                Tag("click_on", "up", 0), Tag("click_on", Nil, 0), Tag("subject_compare", "on", 2), Close, Tag("wait", Nil, 0)>>],
    [extends |-> "page", whole |-> TRUE,
     body |-> <<Open, Tag("subject_set", "on", 1), Tag("click_at", "set", 0), Tag("other", Nil, 0),
                Tag("subject_compare", "on", 2), Tag("set_language", "de", 0),
                Tag("screenshot_compare", Nil, <<"page", "de">>), Close>>],
    [extends |-> "card", whole |-> TRUE,
     body |-> <<Open, Tag("click_on", "go", 0), Tag("click_on", "back", 0), Close,
                Open, Tag("click_at", "sw", 0), Tag("screenshot_compare", Nil, <<"card", Nil>>), Close>>],
    [extends |-> "none", whole |-> FALSE, body |-> <<Open>>] }

MCScreens == 1 .. 3

--------------------------------------------------------------------------------
MCInit ==
  /\ part \in {"index", "packs", "tests"}
  /\ TestInit /\ Init
  /\ part # "index" => kind = "newest" /\ hash = [n \in Names |-> 0]

MCNext ==
  /\ UNCHANGED part
  /\ \/ part = "index" /\ Next /\ UNCHANGED testVars
     \/ part = "packs" /\ Load /\ calls < 4 /\ calls' = calls + 1 /\ UNCHANGED vars
     \/ part = "tests" /\ TestNext /\ UNCHANGED <<loads, blobs, buffers, vars>>
                      /\ lib'.packs = lib.packs

MCSpec == MCInit /\ [][MCNext]_<<part, testVars, vars>>
================================================================================
