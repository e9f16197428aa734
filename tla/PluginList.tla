----------------------------- MODULE PluginList -----------------------------
(***************************************************************************)
(* The lists of plugins a client builds, uses and takes apart              *)
(* (extractor_plugins.c), and what a plugin in a list holds on to between  *)
(* the calls of EXTRACTOR_extract: a reference to the shared segment, a    *)
(* process behind a channel, and an open library.                          *)
(*                                                                         *)
(* A name and the options of a plugin are sequences of characters, and so  *)
(* are the configuration strings that name them.                           *)
(***************************************************************************)
EXTENDS Integers, SequencesExt, FiniteSetsExt

CONSTANTS Lists,        \* the lists
          Installed,    \* names of the plugins that are in the search path
          Loadable,     \* those whose library can be opened
          Configs,      \* what configurations ask for, as sequences of entries
          MaxOpens,     \* of a library, over all calls
          Segments      \* shared segments; the segment of a list is its own

ASSUME ListsAssumption == IsFiniteSet(Lists)
ASSUME InstalledAssumption == IsFiniteSet(Installed) /\ Loadable \subseteq Installed
ASSUME BoundsAssumption == MaxOpens \in Nat \ {0}

(* EXTRACTOR_OPTION_... *)
Flags == {"default", "in_process", "disabled"}

NoOptions == <<"NULL">>
NoSegment == "none"
ASSUME SegmentsAssumption == NoSegment \notin Segments

VARIABLES
  list,       \* the plugins of each list, the last one added first
  rc,         \* the segments that exist, and their reference counters
  processes,  \* the plugins whose process has not been waited for
  handles,    \* how often each library has been opened and not closed
  asked,      \* the configuration that is being applied: its entries,
  before,     \* the list before that,
  cpy,        \* the string,
  parser      \* and how far EXTRACTOR_plugin_add_config has come

config == <<asked, before, cpy, parser>>
vars   == <<list, rc, processes, handles, config>>

Idle == [list |-> "none", pos |-> 0, last |-> 0, flags |-> "default"]

Init ==
  /\ list = [l \in Lists |-> <<>>]
  /\ rc = <<>> /\ processes = {}
  /\ handles = [name \in Installed |-> 0]
  /\ asked = <<>> /\ before = <<>> /\ cpy = <<>> /\ parser = Idle

-----------------------------------------------------------------------------
(* EXTRACTOR_plugin_add and EXTRACTOR_plugin_remove *)

NewPlugin(name, options, flags) ==
  [name |-> name, options |-> options, flags |-> flags,
   shm |-> NoSegment, channel |-> FALSE, opened |-> FALSE]

HasFirst(plugins, name) ==    \* mutant: only the first plugin is looked at
  plugins # <<>> /\ plugins[1].name = name

Has(plugins, name) == \E i \in DOMAIN plugins : plugins[i].name = name

PluginAdd(plugins, name, options, flags) ==
  IF Has(plugins, name) \/ name \notin Installed THEN plugins
  ELSE <<NewPlugin(name, options, flags)>> \o plugins

(* Where the search for a name ends. *)
Place(plugins, name) == CHOOSE i \in DOMAIN plugins : plugins[i].name = name

Without(plugins, name) ==
  IF Has(plugins, name) THEN RemoveAt(plugins, Place(plugins, name)) ELSE plugins

UncountedOnly(counters, segment) ==    \* mutant: the last reference keeps it
  IF segment = NoSegment THEN counters ELSE [counters EXCEPT ![segment] = @ - 1]

(* A segment goes with its last reference. *)
Unreferenced(counters, segment) ==
  IF segment = NoSegment THEN counters
  ELSE IF counters[segment] = 1
  THEN [s \in DOMAIN counters \ {segment} |-> counters[s]]
  ELSE [counters EXCEPT ![segment] = @ - 1]

(* The plugin that is found is closed: its process killed, its reference   *)
(* given up, its library closed.                                           *)
PluginRemove(l, name) ==
  IF ~Has(list[l], name) THEN UNCHANGED <<list, rc, processes, handles>>
  ELSE LET plugin == list[l][Place(list[l], name)]
       IN  /\ list' = [list EXCEPT ![l] = Without(@, name)]
           /\ processes' = processes \ {<<l, name>>}
           /\ rc' = Unreferenced(rc, plugin.shm)
           /\ handles' = IF plugin.opened THEN [handles EXCEPT ![name] = @ - 1]
                         ELSE handles

Resting == parser = Idle

AddPlugin(l, name, flags) ==
  /\ Resting
  /\ list' = [list EXCEPT ![l] = PluginAdd(@, name, NoOptions, flags)]
  /\ UNCHANGED <<rc, processes, handles, config>>

RemovePlugin(l, name) ==
  /\ Resting
  /\ PluginRemove(l, name)
  /\ UNCHANGED config

(* EXTRACTOR_plugin_add_defaults: the plugins that are installed, each put *)
(* in front of the others, in whatever order the directory names them.     *)
AddDefaults(l, flags) ==
  /\ Resting /\ list[l] = <<>>
  /\ \E order \in SetToSeqs(Installed) :
       list' = [list EXCEPT ![l] =
                  [i \in DOMAIN order |-> NewPlugin(order[i], NoOptions, flags)]]
  /\ UNCHANGED <<rc, processes, handles, config>>

(* One round of EXTRACTOR_plugin_remove_all. *)
RemoveHead(l) ==
  /\ Resting /\ list[l] # <<>>
  /\ PluginRemove(l, Head(list[l]).name)
  /\ UNCHANGED config

-----------------------------------------------------------------------------
(* EXTRACTOR_plugin_add_config *)

Nul == "NUL"

(* How an entry is written. *)
Written(e) == (IF e.minus THEN <<"-">> ELSE <<>>) \o e.name
              \o (IF e.options = NoOptions THEN <<>> ELSE <<"(">> \o e.options \o <<")">>)

(* A configuration that is written can be read back: the names hold no     *)
(* character that ends a name, a plugin to add is not called "-...", and   *)
(* options do not hold the parenthesis that ends them.                     *)
Readable(e) ==
  /\ e.name # <<>> /\ ToSet(e.name) \cap {":", "(", Nul} = {}
  /\ ~e.minus => e.name[1] # "-"
  /\ ToSet(e.options) \cap {")", Nul} = {}

ASSUME ConfigsAssumption ==
  \A entries \in Configs :
    /\ entries # <<>>
    /\ entries \in Seq([minus : BOOLEAN, name : Seq(STRING), options : Seq(STRING)])
    /\ \A i \in DOMAIN entries : Readable(entries[i])

Joined(entries) ==
  Tail(FlattenSeq([i \in DOMAIN entries |-> <<":">> \o Written(entries[i])]))

(* A bound: configurations are only applied to a list while the others,    *)
(* which they do not touch, are empty.                                     *)
Alone(l) == \A other \in Lists \ {l} : list[other] = <<>>

AddConfig(l, flags) ==
  /\ Resting /\ Alone(l)
  /\ asked' \in Configs
  /\ before' = list[l]
  /\ cpy' = Append(Joined(asked'), Nul)
  /\ parser' = [list |-> l, pos |-> 0, last |-> 0, flags |-> flags]
  /\ UNCHANGED <<list, rc, processes, handles>>

(* Offsets count from 0. *)
At(i) == cpy[i + 1]
Length == Len(cpy) - 1
Skip(from, chars) == Min({i \in from..Length : At(i) \in chars})
Text(from, to) == SubSeq(cpy, from + 1, to)

(* One round of the outer loop: where the name ends, where its options     *)
(* are, and where the next entry starts.                                   *)
NameEnd == Skip(parser.pos, {":", Nul, "("})
HasOptions == At(NameEnd) = "("
OptionsEnd == Skip(NameEnd + 1, {Nul, ")"})

FirstSeparator == Skip(parser.pos, {":", Nul})    \* mutant: also within options

EntryEnd == IF ~HasOptions THEN NameEnd
            ELSE IF At(OptionsEnd) = ")" THEN Skip(OptionsEnd + 1, {":", Nul})
            ELSE OptionsEnd

ParseEntry ==
  /\ ~Resting /\ parser.pos < Length
  /\ LET l       == parser.list
         first   == parser.last
         options == IF HasOptions THEN Text(NameEnd + 1, OptionsEnd) ELSE NoOptions
     IN  IF first < NameEnd /\ At(first) = "-"
         THEN PluginRemove(l, Text(first + 1, NameEnd))
         ELSE /\ list' = [list EXCEPT ![l] =
                            PluginAdd(@, Text(first, NameEnd), options, parser.flags)]
              /\ UNCHANGED <<rc, processes, handles>>
  /\ parser' = [parser EXCEPT !.pos = EntryEnd + 1, !.last = EntryEnd + 1]
  /\ UNCHANGED <<asked, before, cpy>>

ConfigDone ==
  /\ ~Resting /\ parser.pos >= Length
  /\ asked' = <<>> /\ before' = <<>> /\ cpy' = <<>> /\ parser' = Idle
  /\ UNCHANGED <<list, rc, processes, handles>>

-----------------------------------------------------------------------------
(* EXTRACTOR_extract, and what do_extract leaves behind *)

OutOfProcess(plugin) == plugin.flags # "in_process"

(* The segment of the first plugin that has one, or a new one. *)
Shared(plugins) ==
  LET having == {i \in DOMAIN plugins : plugins[i].shm # NoSegment}
  IN  IF having = {} THEN NoSegment
      ELSE plugins[CHOOSE i \in having : \A j \in having : i <= j].shm

(* A plugin without a channel is given a reference and, unless that fails, *)
(* a process.  The segment of one that has a channel is not touched.       *)
Equipped(plugin, segment, started) ==
  IF ~OutOfProcess(plugin) \/ plugin.channel THEN plugin
  ELSE [plugin EXCEPT !.shm = IF @ = NoSegment THEN segment ELSE @,
                      !.channel = started]

References(plugins, segment) ==
  Cardinality({i \in DOMAIN plugins : plugins[i].shm = segment})

(* EXTRACTOR_plugin_load_ of an in-process plugin; one that cannot be      *)
(* loaded is disabled, and counts as out-of-process the next time.         *)
Loaded(plugin) ==
  IF OutOfProcess(plugin) THEN plugin
  ELSE IF plugin.name \in Loadable THEN [plugin EXCEPT !.opened = TRUE]
  ELSE [plugin EXCEPT !.flags = "disabled"]

OpenedOnce(plugins, name) ==    \* mutant: a library that is open is not opened again
  /\ handles[name] = 0
  /\ \E i \in DOMAIN plugins : /\ plugins[i].name = name /\ ~OutOfProcess(plugins[i])
                               /\ name \in Loadable

Opened(plugins, name) ==
  \E i \in DOMAIN plugins : /\ plugins[i].name = name /\ ~OutOfProcess(plugins[i])
                            /\ name \in Loadable

(* Which segment the call works with. *)
Chosen(plugins) ==
  IF Shared(plugins) # NoSegment THEN {Shared(plugins)}
  ELSE IF \E i \in DOMAIN plugins : OutOfProcess(plugins[i]) THEN Segments \ DOMAIN rc
  ELSE {NoSegment}

(* The list once the processes have been started, *)
Ready(plugins, segment, started) ==
  [i \in DOMAIN plugins |-> Equipped(plugins[i], segment, i \in started)]

(* once the channels in `broken' have been destroyed on the way, in this   *)
(* or before the next call,                                                *)
After(ready, broken) ==
  [i \in DOMAIN ready |-> IF i \in broken THEN [ready[i] EXCEPT !.channel = FALSE] ELSE ready[i]]

(* and once the in-process plugins up to number `done' have been run, the  *)
(* client having aborted then.                                             *)
Left(after, done) ==
  [i \in DOMAIN after |-> IF i <= done THEN Loaded(after[i]) ELSE after[i]]

(* What the call does to the plugins, the segment, the processes and the   *)
(* libraries.                                                              *)
ExtractWith(l, segment, started, broken, done) ==
  LET all   == list[l]
      ready == Ready(all, segment, started)
      after == After(ready, broken)
      fresh == References(ready, segment) - References(all, segment)
      run   == SubSeq(all, 1, done)
  IN  /\ list' = [list EXCEPT ![l] = Left(after, done)]
      /\ handles' = [name \in Installed |->
                       handles[name] + (IF Opened(run, name) THEN 1 ELSE 0)]
      /\ rc' = IF segment = NoSegment THEN rc
               ELSE [s \in DOMAIN rc \cup {segment} |->
                       (IF s \in DOMAIN rc THEN rc[s] ELSE 0)
                       + (IF s = segment THEN fresh ELSE 0)]
      /\ processes' = {p \in processes : p[1] # l}
                        \cup {<<l, all[i].name>> : i \in {j \in DOMAIN all : after[j].channel}}

Extract(l) ==
  /\ Resting /\ list[l] # <<>>
  /\ \A name \in Installed : handles[name] < MaxOpens
  /\ \E segment \in Chosen(list[l]), started \in SUBSET DOMAIN list[l],
        broken \in SUBSET DOMAIN list[l], done \in 0..Len(list[l]) :
       ExtractWith(l, segment, started, broken, done)
  /\ UNCHANGED config

-----------------------------------------------------------------------------
Next ==
  \/ \E l \in Lists :
       \/ \E name \in Installed : RemovePlugin(l, name)
       \/ \E name \in Installed, flags \in {"default", "in_process"} : AddPlugin(l, name, flags)
       \/ \E flags \in {"default", "in_process"} : AddDefaults(l, flags) \/ AddConfig(l, flags)
       \/ RemoveHead(l)
       \/ Extract(l)
  \/ ParseEntry
  \/ ConfigDone

Spec == Init /\ [][Next]_vars
-----------------------------------------------------------------------------
(* A configuration string does to the list what its entries say, one after *)
(* the other: options may hold the characters that separate names, and an  *)
(* entry may undo an earlier one (EXTRACTOR_plugin_add_config).            *)
Applied(plugins, e) ==
  IF e.minus THEN Without(plugins, e.name)
  ELSE PluginAdd(plugins, e.name, e.options, parser.flags)

ConfigApplied ==
  ~Resting /\ parser.pos >= Length =>
    list[parser.list] = FoldLeft(Applied, before, asked)

(* The plugins of all lists, as pairs of a list and a place. *)
Places == UNION {{l} \X DOMAIN list[l] : l \in Lists}
Plugin(place) == list[place[1]][place[2]]

(* A shared segment exists as long as a plugin refers to it, whatever is   *)
(* added, removed and extracted in between, and its counter says how many  *)
(* do (EXTRACTOR_plugin_remove, EXTRACTOR_extract).                        *)
SegmentsCounted ==
  /\ {Plugin(x).shm : x \in Places} \subseteq DOMAIN rc \cup {NoSegment}
  /\ \A s \in DOMAIN rc :
       /\ rc[s] > 0
       /\ rc[s] = Cardinality({x \in Places : Plugin(x).shm = s})

(* No process is left behind by a plugin that was removed, no two plugins  *)
(* of a list share one, and each talks through a segment that exists.      *)
ProcessesOwned ==
  /\ \A x, y \in Places : x[1] = y[1] /\ Plugin(x).name = Plugin(y).name => x = y
  /\ processes = {<<x[1], Plugin(x).name>> : x \in {y \in Places : Plugin(y).channel}}
  /\ \A x \in Places : Plugin(x).channel => Plugin(x).shm # NoSegment

(* Closing the library of one plugin never unloads the code that a plugin  *)
(* of another list still uses.                                             *)
LibrariesOpen ==
  \A name \in Installed :
    handles[name] >= Cardinality({x \in Places : Plugin(x).name = name /\ Plugin(x).opened})
=============================================================================
