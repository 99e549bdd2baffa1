---- MODULE Languages ----
(***************************************************************************)
(* The languages of the runtime: the table of messages and the name of the *)
(* runtime's own language, each behind a lock of its own. init fills both  *)
(* when Kubo is ready; a write of config.i18n switches the language of the *)
(* running process; all the while tasks look messages up, in one step for  *)
(* the language and one for the message.                                   *)
(*                                                                         *)
(* Of the messages of a language only those are kept that have a text. A   *)
(* known message that its file lacks, and every message of a file that     *)
(* does not parse or defines a message twice, has its bare key instead.    *)
(***************************************************************************)
EXTENDS Naturals

CONSTANTS
    Langs,
    Ids,                \* MESSAGE_IDS, the messages the code looks up
    English, Default,   \* what t_lang falls back to, what a runtime speaks unless told
    Bundled,            \* [language -> file]: the files that are part of the binary
    Compiled,           \* those i18n.yaml has a CID for
    Mapped,             \* those of the map init reads from Kubo
    Loop, Tasks,        \* the main loop, and the tasks spawned beside it
    NoLang,
    MaxPuts, MaxCrashes \* bounds

\* What parse_ftl makes of a file: whether it is taken, and which messages it defines.
Files == [sound : BOOLEAN, texts : SUBSET Ids]

\* The messages of each language that have a text, if it is loaded.
Tables == [Langs -> (SUBSET Ids) \union {NoLang}]

ASSUME LanguagesAssumption ==
    /\ English \in DOMAIN Bundled /\ Default \in DOMAIN Bundled
    /\ \A F \in {Bundled, Compiled, Mapped} :
          DOMAIN F \subseteq Langs /\ \A l \in DOMAIN F : F[l] \in Files
    /\ NoLang \notin Langs /\ Loop \notin Tasks
    /\ \A S \in (SUBSET Ids) \union Tables : S # NoLang
    /\ MaxPuts \in Nat /\ MaxCrashes \in Nat

Readers == {Loop} \union Tasks

VARIABLES
    messages,   \* MESSAGES: a table, NoLang before init
    runtime,    \* RUNTIME_LANG: a language, NoLang before init
    override,   \* the language of the command line or of config.yaml, or NoLang
    config,     \* config.i18n of the manifest, or NoLang
    stage,      \* what the main task does next: "load", "name", "serve", "insert", "activate"
    target,     \* the language of the switch under way, or NoLang
    reading,    \* [Readers -> Langs or NoLang]: the language a lookup has settled on
    found,      \* [Readers -> BOOLEAN]: it was loaded at the time
    switched,   \* the runtime's language was set by a switch
    excused,    \* the live language need not be config.i18n
    puts, crashes

lookups == <<reading, found>>
counts == <<puts, crashes>>
langVars == <<messages, runtime, override, config, stage, target, lookups, switched, excused, counts>>

Loaded(l) == messages # NoLang /\ messages[l] # NoLang

\* parse_ftl, the same for every file: one the parser or the bundle refuses gives no text.
Parsed(file) == IF file.sound THEN file.texts ELSE {}

Everywhere(x) == [r \in Readers |-> x]

----
(* Start *)

LangInit ==
    /\ messages = NoLang /\ runtime = NoLang
    /\ override \in Langs \union {NoLang} /\ config \in Langs \union {NoLang}
    /\ stage = "load" /\ target = NoLang
    /\ reading = Everywhere(NoLang) /\ found = Everywhere(FALSE)
    /\ switched = FALSE /\ excused = FALSE
    /\ puts = 0 /\ crashes = 0

KuboOnly(F) ==  \* faulty variant: nothing but what Kubo gave
    [l \in Langs |-> IF l \in F THEN Parsed(Mapped[l]) ELSE NoLang]

\* load_all_messages: the bundled files, and over them the files of the map.
Table(F) ==
    [l \in Langs |-> IF l \in F THEN Parsed(Mapped[l])
                     ELSE IF l \in DOMAIN Bundled THEN Parsed(Bundled[l]) ELSE NoLang]

\* Kubo may withhold the map, or any file.
InitMessages ==
    /\ stage = "load" /\ stage' = "name"
    /\ \E F \in SUBSET DOMAIN Mapped : messages' = Table(F)
    /\ UNCHANGED <<runtime, override, config, target, lookups, switched, excused, counts>>

AlwaysDefault(reached) == Default  \* faulty variant: the manifest is not asked

\* An override, else the manifest if Kubo gives it, else Norwegian; loaded or not.
StartLanguage(reached) ==
    IF override # NoLang THEN override ELSE IF reached /\ config # NoLang THEN config ELSE Default

InitLanguage ==
    /\ stage = "name" /\ stage' = "serve"
    /\ \E reached \in BOOLEAN :
          /\ runtime' = StartLanguage(reached)
          /\ excused' = (override # NoLang \/ ~reached)
    /\ UNCHANGED <<messages, override, config, target, lookups, switched, counts>>

----
(* config.i18n *)

\* The loop handles a message when it has none of its own lookups under way.
Free == stage = "serve" /\ reading[Loop] = NoLang

\* PUT .config.i18n: the manifest takes any language, and the client is answered with :ok.
\* The switch is made if the file is bundled, or Kubo has it under a compiled-in CID.
Put(l) ==
    /\ Free /\ puts < MaxPuts /\ puts' = puts + 1
    /\ config' = l
    /\ \/ /\ l \in DOMAIN Bundled \union DOMAIN Compiled
          /\ stage' = "insert" /\ target' = l /\ excused' = FALSE
       \/ /\ l \notin DOMAIN Bundled
          /\ excused' = TRUE /\ UNCHANGED <<stage, target>>
    /\ UNCHANGED <<messages, runtime, override, lookups, switched, crashes>>

\* DELETE .config.i18n leaves the live language as it is.
Delete ==
    /\ Free /\ config # NoLang /\ puts < MaxPuts /\ puts' = puts + 1
    /\ config' = NoLang
    /\ UNCHANGED <<messages, runtime, override, stage, target, lookups, switched, excused, crashes>>

\* Kubo is not asked for a bundled language.
NewTexts == Parsed(IF target \in DOMAIN Bundled THEN Bundled[target] ELSE Compiled[target])

OnlyTarget == [l \in Langs |-> IF l = target THEN NewTexts ELSE NoLang]  \* faulty variant: the old languages go

WithTarget == [messages EXCEPT ![target] = NewTexts]

ActivateFirst ==  \* faulty variant: the language before its messages
    /\ stage = "insert" /\ stage' = "activate"
    /\ runtime' = target /\ switched' = TRUE
    /\ UNCHANGED <<messages, override, config, target, lookups, excused, counts>>

\* switch_lang: the messages under their lock, then the language under its own.
Insert ==
    /\ stage = "insert" /\ stage' = "activate"
    /\ messages' = WithTarget
    /\ UNCHANGED <<runtime, override, config, target, lookups, switched, excused, counts>>

Activate ==
    /\ stage = "activate" /\ stage' = "serve"
    /\ runtime' = target /\ switched' = TRUE /\ target' = NoLang
    /\ UNCHANGED <<messages, override, config, lookups, excused, counts>>

----
(* Lookups *)

\* runtime_lang: English before init.
Spoken == IF runtime = NoLang THEN English ELSE runtime

LangOfCaller(l) == IF Loaded(l) THEN l ELSE Spoken

Settle(r, l) ==
    /\ reading' = [reading EXCEPT ![r] = l]
    /\ found' = [found EXCEPT ![r] = Loaded(l)]
    /\ UNCHANGED <<messages, runtime, override, config, stage, target, switched, excused, counts>>

\* t in a spawned task; the publication of the DID document starts before init.
Look(r) == r \in Tasks /\ reading[r] = NoLang /\ Settle(r, Spoken)

\* t in the loop, or an error text for a caller, in his language if it is loaded.
LookFor(l) == Free /\ Settle(Loop, LangOfCaller(l))

\* t_lang: the language that answers a lookup, and whether it has a text for the message;
\* a loaded language does not fall back to another one for what it lacks.
Speaker(l) == IF Loaded(l) THEN l ELSE English

Answered(l, id) == Loaded(Speaker(l)) /\ id \in messages[Speaker(l)]

Return(r) ==
    /\ reading[r] # NoLang
    /\ reading' = [reading EXCEPT ![r] = NoLang]
    /\ found' = [found EXCEPT ![r] = FALSE]
    /\ UNCHANGED <<messages, runtime, override, config, stage, target, switched, excused, counts>>

\* The process dies and starts again. Which manifest it finds is RuntimeHead's subject;
\* here it is the last one.
Crash ==
    /\ crashes < MaxCrashes /\ crashes' = crashes + 1
    /\ messages' = NoLang /\ runtime' = NoLang
    /\ stage' = "load" /\ target' = NoLang
    /\ reading' = Everywhere(NoLang) /\ found' = Everywhere(FALSE)
    /\ switched' = FALSE /\ excused' = FALSE
    /\ UNCHANGED <<override, config, puts>>

----
LangNext ==
    \/ InitMessages \/ InitLanguage
    \/ \E l \in Langs : Put(l) \/ LookFor(l)
    \/ Delete \/ Insert \/ Activate
    \/ \E r \in Readers : Look(r) \/ Return(r)
    \/ Crash

LangSpec == LangInit /\ [][LangNext]_langVars

----
(* Properties *)

LangTypeOK ==
    /\ messages \in Tables \union {NoLang}
    /\ runtime \in Langs \union {NoLang}
    /\ override \in Langs \union {NoLang} /\ config \in Langs \union {NoLang}
    /\ stage \in {"load", "name", "serve", "insert", "activate"}
    /\ target \in Langs \union {NoLang} /\ (target # NoLang <=> stage \in {"insert", "activate"})
    /\ reading \in [Readers -> Langs \union {NoLang}] /\ found \in [Readers -> BOOLEAN]
    /\ switched \in BOOLEAN /\ excused \in BOOLEAN
    /\ puts \in 0..MaxPuts /\ crashes \in 0..MaxCrashes

\* Two locks, taken one after the other: a language that a switch has made the runtime's
\* own has its messages in the table, for whichever task looks at that moment
\* (switch_lang inserts before it activates).
SwitchedIsLoaded == switched => Loaded(runtime)

\* Between the choice of a language and the lookup in it a switch may come: the language
\* is still there, and a caller reads his own (switch_lang inserts, it does not replace).
LookupsFindTheirLanguage == \A r \in Readers : found[r] => Loaded(reading[r])

\* The files a language may be loaded from, and what a lookup finds missing in one.
Sources(l) == IF l \in DOMAIN Bundled THEN {Bundled, Mapped} ELSE {Compiled, Mapped}

Lacks(F, l, id) == l \in DOMAIN F /\ id \notin Parsed(F[l])

\* From init on, with Kubo or without and whatever is switched, a bundled language answers
\* for itself, English for every language that is not loaded, and a bare key is sent only
\* where a file of the language that answers has no text: the bundled one, the one of the
\* map, which takes its place even when it has less, or the compiled-in one of a language
\* that is not bundled (load_all_messages, switch_lang, parse_ftl, t_lang).
BareKeysAreGaps ==
    messages # NoLang =>
        \A l \in Langs, id \in Ids :
            /\ l \in DOMAIN Bundled => Speaker(l) = l
            /\ ~Answered(l, id) => \E F \in Sources(Speaker(l)) : Lacks(F, Speaker(l), id)

\* What the manifest says is what the runtime speaks, after a start and after each
\* change, unless an override or Kubo stood in the way at the start, or the last change
\* named a language switch_lang could not load (main, handle_config_ns).
SpeaksAsConfigured ==
    stage = "serve" /\ ~excused /\ config # NoLang => runtime = config

====
