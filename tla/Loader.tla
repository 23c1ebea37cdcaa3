-------------------------------- MODULE Loader --------------------------------
(***************************************************************************)
(* Packs of XML files (lv_xml_load.c) and the translations among them       *)
(* (lv_xml_translation.c).                                                 *)
(*                                                                         *)
(* A directory is what a scan of it finds: its files in the order in which  *)
(* they are read, those of its subdirectories where these are entered.      *)
(* A file is a record of what the code asks of it: whether its name ends in *)
(* .xml, the root tag, whether the text is well-formed to its end, the name *)
(* it registers under, and what it defines.                                 *)
(*                                                                         *)
(* An archive is a directory in memory: a blob the file system knows under  *)
(* a path made for it, a record in xml_loads, and the buffer it was read    *)
(* into when the library read it itself.                                    *)
(***************************************************************************)
EXTENDS Integers, Sequences, FiniteSets, TLC

CONSTANTS
  Dirs,       (* the directories: name -> sequence of files                *)
  Missing,    (* paths that name no directory                              *)
  Archives,   (* the addresses of records in xml_loads                     *)
  Nil         (* an attribute that is not there, the empty prefix          *)

ASSUME LoaderAssumption ==
  /\ Missing \cap DOMAIN Dirs = {} /\ Nil \notin Missing
  /\ \A d \in DOMAIN Dirs : Len(Dirs[d]) \in Nat

VARIABLES
  lib,        (* what is registered: [comps, subjects, packs, prefix]       *)
  loads,      (* xml_loads: the records listed                             *)
  blobs,      (* the blobs registered with the file system, by record      *)
  buffers     (* the buffers that lv_xml_load_all_from_file() allocated    *)

loaderVars == <<lib, loads, blobs, buffers>>

LoaderInit ==
  /\ lib = [comps |-> <<>>, subjects |-> {}, packs |-> <<>>, prefix |-> Nil]
  /\ loads = {} /\ blobs = {} /\ buffers = {}

--------------------------------------------------------------------------------
\* A component takes the place of one of its name.
Registered(comps, n, def) ==
  [x \in DOMAIN comps \cup {n} |-> IF x = n THEN def ELSE comps[x]]

\* lv_xml_register_component_from_data(), as far as it matters here.  The globals
\* keep what was read of a text that breaks off; a component keeps its old definition.
register_component(l, f) ==
  IF f.name = "globals" THEN [l EXCEPT !.subjects = @ \cup f.subjects]
  ELSE IF f.whole THEN [l EXCEPT !.comps = Registered(@, f.name, f.def)]
  ELSE l

\* The pack of a translations file: rows without a tag are skipped, all of them
\* when no languages are declared; a row has a text, or none, for each language.
PackOf(f) ==
  [languages |-> f.languages,
   rows |-> IF f.languages = <<>> THEN <<>>
            ELSE LET tagged == SelectSeq(f.rows, LAMBDA r : r.tag # Nil)
                 IN  [i \in 1 .. Len(tagged) |->
                        [tag |-> tagged[i].tag,
                         texts |-> [k \in 1 .. Len(f.languages) |->
                            IF f.languages[k] \in DOMAIN tagged[i].texts
                            THEN tagged[i].texts[f.languages[k]] ELSE Nil]]]]

\* (mutant) the pack is there before the text is known to be well-formed
register_translationEarly(l, f) ==
  [l EXCEPT !.packs = Append(@, IF f.whole THEN PackOf(f) ELSE [languages |-> <<>>, rows |-> Nil])]

\* lv_xml_register_translation_from_data(): well-formed first, then a pack.
register_translation(l, f) ==
  IF f.whole THEN [l EXCEPT !.packs = Append(@, PackOf(f))] ELSE l

\* load_from_path(): the root tag says what the file is.  `root` is Nil when the
\* text breaks off before it.
load_from_path(l, f) ==
  IF ~f.xml \/ f.root = Nil THEN l
  ELSE IF f.root \in {"component", "screen", "globals"} THEN register_component(l, f)
  ELSE IF f.root = "translations" THEN register_translation(l, f)
  ELSE l

\* load_all_recursive(), broken off after n files; `unread`: the files, by their
\* places, that cannot be opened or read.
Scanned(l, d, n, unread) ==
  LET upto[i \in 0 .. n] ==
        IF i = 0 THEN [l EXCEPT !.prefix = d]
        ELSE IF i \in unread THEN upto[i - 1]
        ELSE load_from_path(upto[i - 1], Dirs[d][i])
  IN  upto[n]

Places(d) == 1 .. Len(Dirs[d])

--------------------------------------------------------------------------------
\* lv_xml_load_all_from_path(): OK or, with n short of the end, a failed read.
LoadPath(d, n, unread) ==
  /\ lib' = Scanned(lib, d, n, unread)
  /\ UNCHANGED <<loads, blobs, buffers>>

\* (mutant) the prefix is set before the directory is probed
LoadMissingPointed(d) ==
  /\ lib' = [lib EXCEPT !.prefix = d]
  /\ UNCHANGED <<loads, blobs, buffers>>

LoadMissing(d) == UNCHANGED loaderVars

\* lv_xml_load_all_from_data(), and lv_xml_load_all_from_file() with its buffer.
LoadArchive(a, d, own, unread) ==
  /\ a \notin loads
  /\ lib' = Scanned(lib, d, Len(Dirs[d]), unread)
  /\ loads' = loads \cup {a}
  /\ blobs' = blobs \cup {a}
  /\ buffers' = IF own THEN buffers \cup {a} ELSE buffers

\* (mutant) a scan that fails leaves the blob registered
ArchiveBreaksKept(a, d, n) ==
  /\ a \notin loads /\ n < Len(Dirs[d])
  /\ lib' = Scanned(lib, d, n, {})
  /\ blobs' = blobs \cup {a}
  /\ UNCHANGED <<loads, buffers>>

\* The scan of an archive fails: blob, record and buffer go, the components that
\* were registered and the prefix stay.
ArchiveBreaks(a, d, n) ==
  /\ a \notin loads /\ n < Len(Dirs[d])
  /\ lib' = Scanned(lib, d, n, {})
  /\ UNCHANGED <<loads, blobs, buffers>>

\* lv_xml_unload(), of one archive or of all (NULL, lv_xml_load_deinit()).
Unload(S) ==
  /\ S # {} /\ S \subseteq loads
  /\ loads' = loads \ S
  /\ blobs' = blobs \ S
  /\ buffers' = buffers \ S
  /\ UNCHANGED lib

LoaderNext ==
  \/ \E d \in DOMAIN Dirs : \E n \in 0 .. Len(Dirs[d]) :
       \E unread \in SUBSET (1 .. n) : LoadPath(d, n, unread)
  \/ \E d \in Missing : LoadMissing(d)
  \/ \E a \in Archives, d \in DOMAIN Dirs :
       \/ \E own \in BOOLEAN, unread \in SUBSET Places(d) : LoadArchive(a, d, own, unread)
       \/ \E n \in 0 .. Len(Dirs[d]) : ArchiveBreaks(a, d, n)
  \/ \E S \in {{a} : a \in loads} \cup {loads} : Unload(S)

LoaderSpec == LoaderInit /\ [][LoaderNext]_loaderVars

--------------------------------------------------------------------------------
\* Nothing is left half loaded, wherever a load broke off: the archives listed
\* are those whose blob the file system knows, no buffer outlives its record, the
\* asset prefix has never moved to a path that was not there ("a scan of a directory
\* that does not exist still repointed the prefix", lv_xml_load.c:88), and every
\* pack of translations is what some file says that was read to its end ("left an empty
\* orphan in packs_ll for every malformed registration", lv_xml_translation.c:103).
NothingHalfLoaded ==
  /\ blobs = loads
  /\ buffers \subseteq loads
  /\ lib.prefix \notin Missing
  /\ \A i \in 1 .. Len(lib.packs) : \E d \in DOMAIN Dirs : \E k \in Places(d) :
       /\ Dirs[d][k].whole /\ Dirs[d][k].root = "translations"
       /\ lib.packs[i] = PackOf(Dirs[d][k])
================================================================================
