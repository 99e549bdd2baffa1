---- MODULE AclLanguages_proofs ----
(***************************************************************************)
(* Acl and Languages: two answers that are put together from several reads *)
(* of what others change meanwhile, for any number of groups, languages    *)
(* and readers. The specifications have nothing in common; each has its    *)
(* invariant here.                                                         *)
(*                                                                         *)
(* The loops of check_full forget what they were told; the invariant keeps *)
(* it. A group that is no longer in todo did not answer, or did not have   *)
(* the caller when it was asked, so that it is not in always.              *)
(*                                                                         *)
(* Of the languages the invariant says what is loaded at each stage of the *)
(* main task, and that nothing is ever taken out of the table.             *)
(***************************************************************************)
EXTENDS Acl, Languages, TLAPS

----
(* Acl: the invariant *)

History == always \subseteq member /\ member \subseteq ever

\* The groups with the given entry that the check has passed by
PassedBy(kind) ==
    \A g \in Groups : acl.group[g] = kind /\ g \in always => g \in todo \/ g \in unheard

NoneLeft(kind) == \A g \in always : acl.group[g] = kind => g \in unheard

Asking == step \in {"deny", "allow"} => ~Denied(acl) /\ ~Granted(acl)

Denying ==
    step = "deny" => PassedBy("deny") /\ \A g \in todo : acl.group[g] = "deny"

Allowing == step = "allow" => NoneLeft("deny") /\ PassedBy("admit")

Admitted ==
    step = "admitted" =>
        /\ ~Denied(acl)
        /\ \/ Granted(acl)
           \/ NoneLeft("deny") /\ \E g \in ever : acl.group[g] = "admit"

Refused ==
    step = "refused" =>
        \/ Denied(acl)
        \/ /\ ~Granted(acl)
           /\ (\E g \in ever : acl.group[g] = "deny") \/ NoneLeft("admit")

Inv == TypeOK /\ History /\ Asking /\ Denying /\ Allowing /\ Admitted /\ Refused

----
\* check_cap's order of entries is the direct entry before the wildcard.
LEMMA DirectIsGranted ==
    ASSUME NEW d \in Documents, ~Denied(d)
    PROVE  /\ Granted(d) <=> Direct(d) = "admit"
           /\ "deny" \notin {d.own, d.wild}
BY DEF Documents, Entries, Denied, Granted, Direct

LEMMA InitInv == Init => Inv
BY DEF Init, Inv, TypeOK, History, Asking, Denying, Allowing, Admitted, Refused, Blank,
       Documents, Entries

LEMMA ChangeInv ==
    ASSUME Inv, NEW g \in Groups, Change(g)
    PROVE  Inv'
<1>1. TypeOK'
  BY DEF Inv, TypeOK, Change
<1>2. History'
  BY DEF Inv, TypeOK, History, Change
<1>3. always' \subseteq always /\ ever \subseteq ever'
  BY DEF Inv, TypeOK, History, Change
<1>4. UNCHANGED <<acl, step, todo, unheard>>
  BY DEF Change
<1>5. Asking' /\ Denying' /\ Allowing'
  BY <1>3, <1>4 DEF Inv, Asking, Denying, Allowing, PassedBy, NoneLeft, Denied, Granted
<1>6. Admitted'
  BY <1>3, <1>4 DEF Inv, Admitted, NoneLeft, Denied, Granted
<1>7. Refused'
  BY <1>3, <1>4 DEF Inv, Refused, NoneLeft, Denied, Granted
<1> QED
  BY <1>1, <1>2, <1>5, <1>6, <1>7 DEF Inv

LEMMA BeginInv ==
    ASSUME Inv, NEW d \in Documents, Begin(d)
    PROVE  Inv'
<1>1. TypeOK'
  BY DEF Inv, TypeOK, Begin
<1>2. History' /\ Asking'
  BY DEF Begin, History, Asking
<1>3. Denying' /\ Allowing'
  BY DEF Begin, Denying, Allowing, PassedBy
<1>4. Admitted' /\ Refused'
  BY DEF Begin, Admitted, Refused
<1> QED
  BY <1>1, <1>2, <1>3, <1>4 DEF Inv

LEMMA AskDenyingInv ==
    ASSUME Inv, NEW g \in Groups, AskDenying(g)
    PROVE  Inv'
<1> USE DEF AskDenying
<1>0. PICK says \in BOOLEAN : Answers(g, says) /\ DenialHeeded(says)
  OBVIOUS
<1>1. TypeOK'
  BY <1>0 DEF Inv, TypeOK, Answers, DenialHeeded
<1>2. History' /\ Asking'
  BY <1>0 DEF Inv, History, Asking, DenialHeeded, Denied, Granted
<1>3. Denying'
  BY <1>0 DEF Inv, History, Denying, PassedBy, Answers, DenialHeeded
<1>4. Allowing' /\ Admitted'
  BY <1>0 DEF Allowing, Admitted, DenialHeeded
<1>5. Refused'
  BY <1>0 DEF Inv, History, Asking, Denying, Refused, Answers, DenialHeeded, Granted, First
<1> QED
  BY <1>1, <1>2, <1>3, <1>4, <1>5 DEF Inv

LEMMA NotDeniedInv ==
    ASSUME Inv, NotDenied
    PROVE  Inv'
<1> USE DEF NotDenied
<1>1. TypeOK'
  BY DEF Inv, TypeOK, With
<1>2. History' /\ Asking'
  BY DEF Inv, History, Asking, Denied, Granted
<1>3. Denying' /\ Admitted' /\ Refused'
  BY DEF Denying, Admitted, Refused
<1>4. Allowing'
  BY DEF Inv, TypeOK, Denying, Allowing, PassedBy, NoneLeft, With
<1> QED
  BY <1>1, <1>2, <1>3, <1>4 DEF Inv

LEMMA AskAllowingInv ==
    ASSUME Inv, NEW g \in Groups, AskAllowing(g)
    PROVE  Inv'
<1> USE DEF AskAllowing
<1>0. PICK says \in BOOLEAN :
        Answers(g, says)
        /\ step' = IF says /\ acl.group[g] = "admit" THEN "admitted" ELSE step
  OBVIOUS
<1>1. TypeOK'
  BY <1>0 DEF Inv, TypeOK, Answers
<1>2. History' /\ Asking'
  BY <1>0 DEF Inv, History, Asking, Denied, Granted
<1>3. Denying' /\ Refused'
  BY <1>0 DEF Denying, Refused
<1>4. Allowing'
  BY <1>0 DEF Inv, History, Allowing, PassedBy, NoneLeft, Answers
<1>5. Admitted'
  BY <1>0 DEF Inv, History, Asking, Allowing, Admitted, NoneLeft, Answers, Denied
<1> QED
  BY <1>1, <1>2, <1>3, <1>4, <1>5 DEF Inv

LEMMA NothingMatchedInv ==
    ASSUME Inv, NothingMatched
    PROVE  Inv'
<1> USE DEF NothingMatched
<1>1. TypeOK' /\ History' /\ Asking' /\ Denying' /\ Allowing' /\ Admitted'
  BY DEF Inv, TypeOK, History, Asking, Denying, Allowing, Admitted
<1>2. Refused'
  BY DEF Inv, TypeOK, Asking, Allowing, Refused, PassedBy, NoneLeft, Granted
<1> QED
  BY <1>1, <1>2 DEF Inv

LEMMA DoneInv ==
    ASSUME Inv, Done
    PROVE  Inv'
BY DEF Done, Inv, TypeOK, History, Asking, Denying, Allowing, Admitted, Refused, Blank,
       Documents, Entries

LEMMA StutterInv ==
    ASSUME Inv, UNCHANGED vars
    PROVE  Inv'
BY DEF vars, Inv, TypeOK, History, Asking, Denying, Allowing, Admitted, Refused, PassedBy,
       NoneLeft, Denied, Granted

THEOREM Invariance == Spec => []Inv
<1>1. Inv /\ [Next]_vars => Inv'
  BY ChangeInv, BeginInv, AskDenyingInv, NotDeniedInv, AskAllowingInv, NothingMatchedInv,
     DoneInv, StutterInv DEF Next
<1> QED
  BY InitInv, <1>1, PTL DEF Spec

----
\* Type correctness, for any number of groups.
THEOREM TypeCorrect == Spec => []TypeOK
<1>1. Inv => TypeOK
  BY DEF Inv
<1> QED
  BY Invariance, <1>1, PTL

\* check_full decides what the document says, whatever the number and the order of its
\* groups, when they all answer and the caller's groups stay as they are.
THEOREM RuleIsFollowed == Spec => []VerdictFollowsRule
<1>1. ASSUME Inv PROVE VerdictFollowsRule
  <2> SUFFICES ASSUME step \in {"admitted", "refused"}, unheard = {}, ever = always
               PROVE  step = "admitted" <=> Admits(acl, member)
    BY DEF VerdictFollowsRule
  <2>1. ever = member /\ always = member /\ member \subseteq Groups
    BY <1>1 DEF Inv, TypeOK, History
  <2>2. acl \in Documents
    BY <1>1 DEF Inv, TypeOK
  <2>3. CASE Denied(acl)
    BY <1>1, <2>3 DEF Inv, Admitted, Admits, Denied
  <2>4. CASE ~Denied(acl)
    <3>1. Admits(acl, member) <=>
            \/ Granted(acl)
            \/ (\E g \in member : acl.group[g] = "admit")
               /\ \A g \in member : acl.group[g] # "deny"
      BY <2>2, <2>4, DirectIsGranted DEF Admits
    <3>2. CASE step = "admitted"
      BY <1>1, <2>1, <2>4, <3>1, <3>2 DEF Inv, Admitted, NoneLeft
    <3>3. CASE step = "refused"
      BY <1>1, <2>1, <2>4, <3>1, <3>3 DEF Inv, Refused, NoneLeft
    <3> QED
      BY <3>2, <3>3
  <2> QED
    BY <2>3, <2>4
<1> QED
  BY Invariance, <1>1, PTL

\* Admission takes a grant, also when groups change and fail to answer.
THEOREM GrantsAdmit == Spec => []AdmittedWasGranted
<1>1. ASSUME Inv PROVE AdmittedWasGranted
  <2>1. acl \in Documents
    BY <1>1 DEF Inv, TypeOK
  <2> QED
    BY <1>1, <2>1, DirectIsGranted DEF Inv, Admitted, AdmittedWasGranted
<1> QED
  BY Invariance, <1>1, PTL

\* A denying group that answers keeps the caller out of the allowing ones.
THEOREM DenialsHold == Spec => []DenialHolds
<1>1. ASSUME Inv PROVE DenialHolds
  <2>1. acl \in Documents
    BY <1>1 DEF Inv, TypeOK
  <2> QED
    BY <1>1, <2>1, DirectIsGranted DEF Inv, Admitted, DenialHolds, NoneLeft
<1> QED
  BY Invariance, <1>1, PTL

----
(* Languages: the invariant *)

\* What is loaded at each stage of the main task.
Phases ==
    /\ stage = "load" => messages = NoLang
    /\ stage # "load" => messages # NoLang
    /\ stage \in {"load", "name"} => runtime = NoLang /\ ~switched
    /\ stage \in {"serve", "insert", "activate"} => runtime # NoLang
    /\ stage = "activate" => Loaded(target)

\* What is loaded of a language comes whole from one of its files, and the bundled
\* languages are always there.
FromFile(l, texts) == \E F \in Sources(l) : l \in DOMAIN F /\ texts = Parsed(F[l])

Kept ==
    messages # NoLang =>
        /\ \A l \in Langs : messages[l] # NoLang => FromFile(l, messages[l])
        /\ \A l \in DOMAIN Bundled : messages[l] # NoLang

\* A lookup under way has settled on a language.
Settled == \A r \in Readers : found[r] => reading[r] # NoLang

\* A switch has a file to take.
Reachable == stage = "insert" => target \in DOMAIN Bundled \union DOMAIN Compiled

\* A switch is on the way to the language of the manifest.
OnTheWay == stage \in {"insert", "activate"} => config = target /\ ~excused

LangInv ==
    /\ LangTypeOK /\ Phases /\ Kept /\ Settled /\ Reachable /\ OnTheWay
    /\ SwitchedIsLoaded /\ LookupsFindTheirLanguage /\ SpeaksAsConfigured

----
\* A table that replaces another one keeps what was loaded, and its shape.
LEMMA TableIsTable ==
    ASSUME NEW F \in SUBSET DOMAIN Mapped
    PROVE  Table(F) \in Tables /\ Table(F) # NoLang
<1>1. \A l \in DOMAIN Mapped : Parsed(Mapped[l]) \in SUBSET Ids
  BY LanguagesAssumption DEF Files, Parsed
<1>2. \A l \in DOMAIN Bundled : Parsed(Bundled[l]) \in SUBSET Ids
  BY LanguagesAssumption DEF Files, Parsed
<1>3. ASSUME NEW l \in Langs PROVE Table(F)[l] \in (SUBSET Ids) \union {NoLang}
  BY <1>1, <1>2 DEF Table
<1>4. Table(F) = [l \in Langs |-> Table(F)[l]]
  BY DEF Table
<1>5. Table(F) \in Tables
  BY <1>3, <1>4, Zenon DEF Tables
<1> QED BY <1>5, LanguagesAssumption

\* Every file read at the start, and every bundled one, is a source of its language.
LEMMA TableFromFiles ==
    ASSUME NEW F \in SUBSET DOMAIN Mapped
    PROVE  /\ \A l \in Langs : Table(F)[l] # NoLang => FromFile(l, Table(F)[l])
           /\ \A l \in DOMAIN Bundled : Table(F)[l] # NoLang
<1>1. \A l \in DOMAIN Bundled : l \in Langs /\ Bundled[l] \in Files
  BY LanguagesAssumption
<1>2. \A l \in DOMAIN Mapped : l \in Langs /\ Mapped[l] \in Files
  BY LanguagesAssumption
<1>3. \A l \in Langs : Table(F)[l] # NoLang => FromFile(l, Table(F)[l])
  BY DEF Table, FromFile, Sources
<1>4. \A f \in Files : Parsed(f) # NoLang
  BY LanguagesAssumption DEF Files, Parsed
<1>5. \A l \in DOMAIN Bundled : Table(F)[l] # NoLang
  BY <1>1, <1>2, <1>4 DEF Table
<1> QED BY <1>3, <1>5

LEMMA WithTargetIsTable ==
    ASSUME LangTypeOK, Reachable, stage = "insert", messages # NoLang
    PROVE  WithTarget \in Tables /\ WithTarget # NoLang
<1>1. NewTexts \in SUBSET Ids
  BY LanguagesAssumption DEF NewTexts, Files, Parsed, Reachable
<1>2. messages \in Tables
  BY DEF LangTypeOK
<1>3. WithTarget \in Tables
  BY <1>1, <1>2 DEF Tables, WithTarget
<1> QED BY <1>3, LanguagesAssumption

\* LangTypeOK in three parts
Tongues ==
    /\ messages \in Tables \union {NoLang}
    /\ runtime \in Langs \union {NoLang}
    /\ override \in Langs \union {NoLang} /\ config \in Langs \union {NoLang}
    /\ stage \in {"load", "name", "serve", "insert", "activate"}
    /\ target \in Langs \union {NoLang} /\ (target # NoLang <=> stage \in {"insert", "activate"})

Lookups ==
    /\ reading \in [Readers -> Langs \union {NoLang}] /\ found \in [Readers -> BOOLEAN]
    /\ switched \in BOOLEAN /\ excused \in BOOLEAN

Counts == puts \in 0..MaxPuts /\ crashes \in 0..MaxCrashes

LEMMA TypeParts == LangTypeOK <=> Tongues /\ Lookups /\ Counts
BY DEF LangTypeOK, Tongues, Lookups, Counts

\* Before the first lookup nobody has found anything.
LEMMA NobodyReads ==
    /\ Everywhere(NoLang) \in [Readers -> Langs \union {NoLang}]
    /\ Everywhere(FALSE) \in [Readers -> BOOLEAN]
    /\ \A r \in Readers : ~Everywhere(FALSE)[r]
BY DEF Everywhere

LEMMA LangInitInv == LangInit => LangInv
<1> SUFFICES ASSUME LangInit PROVE LangInv
  OBVIOUS
<1> USE LanguagesAssumption, NobodyReads DEF LangInit
<1>1. LangTypeOK
  <2>1. Tongues
    BY DEF Tongues
  <2>2. Lookups
    BY DEF Lookups
  <2>3. Counts
    BY DEF Counts
  <2> QED BY <2>1, <2>2, <2>3, TypeParts
<1>2. Phases /\ Kept /\ Settled /\ Reachable /\ OnTheWay
  BY DEF Phases, Kept, Settled, Reachable, OnTheWay
<1>3. SwitchedIsLoaded /\ LookupsFindTheirLanguage /\ SpeaksAsConfigured
  BY DEF SwitchedIsLoaded, LookupsFindTheirLanguage, SpeaksAsConfigured
<1> QED BY <1>1, <1>2, <1>3 DEF LangInv

\* What does not touch the table leaves it as good as it was.
LEMMA KeptStays ==
    ASSUME Kept, UNCHANGED messages
    PROVE  Kept'
BY DEF Kept, FromFile

\* init
LEMMA StartInv ==
    ASSUME LangInv, InitMessages \/ InitLanguage \/ Crash
    PROVE  LangInv'
<1> USE LanguagesAssumption
    DEF LangInv, LangTypeOK, Phases, Settled, Reachable, OnTheWay, SwitchedIsLoaded,
        LookupsFindTheirLanguage, SpeaksAsConfigured, Loaded, lookups, counts
<1>1. CASE InitMessages
  <2>1. PICK F \in SUBSET DOMAIN Mapped : messages' = Table(F)
    BY <1>1 DEF InitMessages
  <2>2. messages' \in Tables /\ messages' # NoLang
    BY <2>1, TableIsTable
  <2>3. Kept'
    BY <2>1, <2>2, TableFromFiles DEF Kept, FromFile
  <2>4. \A r \in Readers : ~found[r]
    BY <1>1 DEF InitMessages
  <2> QED BY <1>1, <2>2, <2>3, <2>4 DEF InitMessages
<1>2. CASE InitLanguage
  <2>1. PICK reached \in BOOLEAN :
            runtime' = StartLanguage(reached) /\ excused' = (override # NoLang \/ ~reached)
    BY <1>2 DEF InitLanguage
  <2>2. runtime' \in Langs
    BY <2>1 DEF StartLanguage
  <2>3. Kept'
    BY <1>2, KeptStays DEF InitLanguage
  <2> QED BY <1>2, <2>1, <2>2, <2>3 DEF InitLanguage, StartLanguage
<1>3. CASE Crash
  <2>1. LangTypeOK'
    <3>1. Tongues'
      BY <1>3, NobodyReads DEF Tongues, Crash
    <3>2. Lookups'
      BY <1>3, NobodyReads DEF Lookups, Crash
    <3>3. Counts'
      BY <1>3, NobodyReads DEF Counts, Crash
    <3> QED BY <3>1, <3>2, <3>3, TypeParts, PTL
  <2>2. \A r \in Readers : ~found'[r]
    BY <1>3, NobodyReads DEF Crash
  <2>3. Kept'
    BY <1>3 DEF Crash, Kept
  <2> QED BY <1>3, <2>1, <2>2, <2>3 DEF Crash
<1> QED BY <1>1, <1>2, <1>3

\* config.i18n and the switch
LEMMA SwitchInv ==
    ASSUME LangInv, (\E l \in Langs : Put(l)) \/ Delete \/ Insert \/ Activate
    PROVE  LangInv'
<1> USE LanguagesAssumption
    DEF LangInv, LangTypeOK, Phases, Settled, Reachable, OnTheWay, SwitchedIsLoaded,
        LookupsFindTheirLanguage, SpeaksAsConfigured, Loaded, lookups, counts
<1>1. ASSUME NEW l \in Langs, Put(l) PROVE LangInv'
  <2>1. LangTypeOK'
    <3>1. Tongues'
      BY <1>1 DEF Tongues, Put, Free
    <3>2. Lookups'
      BY <1>1 DEF Lookups, Put, Free
    <3>3. Counts'
      BY <1>1 DEF Counts, Put, Free
    <3> QED BY <3>1, <3>2, <3>3, TypeParts, PTL
  <2>2. messages' = messages /\ runtime' = runtime /\ reading' = reading /\ found' = found
    BY <1>1 DEF Put
  <2>3. OnTheWay' /\ SpeaksAsConfigured'
    BY <1>1 DEF Put, Free
  <2>4. stage = "serve" /\ stage' \in {"serve", "insert"} /\ switched' = switched
    BY <1>1 DEF Put, Free
  <2>5. Reachable'
    BY <1>1 DEF Put, Free
  <2> QED BY <2>1, <2>2, <2>3, <2>4, <2>5, KeptStays
<1>2. CASE Delete
  BY <1>2, KeptStays DEF Delete, Free
<1>3. CASE Insert
  <2>1. messages' = WithTarget /\ messages' \in Tables /\ messages' # NoLang
    BY <1>3, WithTargetIsTable DEF Insert
  <2>2. /\ target \in Langs /\ NewTexts # NoLang
        /\ \E F \in Sources(target) : target \in DOMAIN F /\ NewTexts = Parsed(F[target])
    BY <1>3 DEF Insert, NewTexts, Parsed, Files, Sources
  <2>3. \A l \in Langs : messages'[l] = IF l = target THEN NewTexts ELSE messages[l]
    BY <2>1, <1>3 DEF WithTarget, Insert, Tables
  <2>4. Kept'
    BY <2>1, <2>2, <2>3, <1>3 DEF Insert, Kept, FromFile
  <2> QED BY <1>3, <2>1, <2>2, <2>3, <2>4 DEF Insert
<1>4. CASE Activate
  BY <1>4, KeptStays DEF Activate
<1> QED BY <1>1, <1>2, <1>3, <1>4

\* Lookups change nothing but what is looked up.
LEMMA LookupInv ==
    ASSUME LangInv, (\E l \in Langs : LookFor(l)) \/ \E r \in Readers : Look(r) \/ Return(r)
    PROVE  LangInv'
<1> USE LanguagesAssumption
    DEF LangInv, LangTypeOK, Phases, Settled, Reachable, OnTheWay, SwitchedIsLoaded,
        LookupsFindTheirLanguage, SpeaksAsConfigured, Loaded, lookups, counts
<1>1. ASSUME NEW r \in Readers, NEW l \in Langs, Settle(r, l) PROVE LangInv'
  BY <1>1, KeptStays DEF Settle
<1>2. Spoken \in Langs /\ \A l \in Langs : LangOfCaller(l) \in Langs
  BY DEF Spoken, LangOfCaller
<1>3. ASSUME NEW r \in Readers, Return(r) PROVE LangInv'
  BY <1>3, KeptStays DEF Return
<1> QED BY <1>1, <1>2, <1>3 DEF LookFor, Look, Readers

\* Every step of Languages keeps the invariant.
THEOREM LangInvariance == LangSpec => []LangInv
<1>1. LangInv /\ [LangNext]_langVars => LangInv'
  <2> SUFFICES ASSUME LangInv, [LangNext]_langVars PROVE LangInv'
    OBVIOUS
  <2>1. CASE UNCHANGED langVars
    BY <2>1, KeptStays DEF langVars, lookups, counts, LangInv, LangTypeOK, Phases, Settled,
       Reachable, OnTheWay, SwitchedIsLoaded, LookupsFindTheirLanguage, SpeaksAsConfigured, Loaded
  <2> QED BY <2>1, StartInv, SwitchInv, LookupInv DEF LangNext
<1> QED BY <1>1, LangInitInv, PTL DEF LangSpec

\* The table of messages, the runtime's language and the lookups have their types, and a
\* switch has a target until it is over (i18n.rs).
THEOREM LangTypeCorrect == LangSpec => []LangTypeOK
<1>1. LangInv => LangTypeOK
  BY DEF LangInv
<1> QED BY <1>1, LangInvariance, PTL

\* A language that a switch made the runtime's own has its messages at every moment, for
\* any number of tasks and languages (switch_lang).
THEOREM SwitchesAreLoaded == LangSpec => []SwitchedIsLoaded
<1>1. LangInv => SwitchedIsLoaded
  BY DEF LangInv
<1> QED BY <1>1, LangInvariance, PTL

\* A lookup that has settled on a loaded language finds it, whatever switch comes between
\* its two reads (t, switch_lang).
THEOREM LanguagesStay == LangSpec => []LookupsFindTheirLanguage
<1>1. LangInv => LookupsFindTheirLanguage
  BY DEF LangInv
<1> QED BY <1>1, LangInvariance, PTL

\* After init a bundled language answers for itself, and a bare key is sent only where a
\* file of the language that answers lacks the message or is refused, for any files
\* (load_all_messages, switch_lang, parse_ftl, t_lang).
THEOREM TextsAreFound == LangSpec => []BareKeysAreGaps
<1>1. ASSUME LangInv, messages # NoLang, NEW l \in Langs, NEW id \in Ids
      PROVE  /\ l \in DOMAIN Bundled => Speaker(l) = l
             /\ ~Answered(l, id) => \E F \in Sources(Speaker(l)) : Lacks(F, Speaker(l), id)
  <2>1. \A k \in DOMAIN Bundled : Loaded(k)
    BY <1>1 DEF LangInv, Kept, Loaded
  <2>2. Speaker(l) \in Langs /\ Loaded(Speaker(l))
    BY <2>1, LanguagesAssumption DEF Speaker
  <2>3. PICK F \in Sources(Speaker(l)) :
            Speaker(l) \in DOMAIN F /\ messages[Speaker(l)] = Parsed(F[Speaker(l)])
    BY <1>1, <2>2 DEF LangInv, Kept, Loaded, FromFile
  <2>4. l \in DOMAIN Bundled => Speaker(l) = l
    BY <2>1 DEF Speaker
  <2>5. ~Answered(l, id) => Lacks(F, Speaker(l), id)
    BY <2>2, <2>3 DEF Answered, Lacks
  <2> QED BY <2>3, <2>4, <2>5
<1>2. LangInv => BareKeysAreGaps
  BY <1>1 DEF BareKeysAreGaps
<1> QED BY <1>2, LangInvariance, PTL

\* The runtime speaks what config.i18n says, after a start and after each change, unless
\* something stood in the way of the last one (main, handle_config_ns).
THEOREM RuntimeSpeaksAsConfigured == LangSpec => []SpeaksAsConfigured
<1>1. LangInv => SpeaksAsConfigured
  BY DEF LangInv
<1> QED BY <1>1, LangInvariance, PTL

====
