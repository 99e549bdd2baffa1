\* Five languages of two messages, the loop and two tasks, three changes of config.i18n.
SPECIFICATION LangSpec
CONSTANTS
    en = en
    nb = nb
    de = de
    eo = eo
    am = am
    started = started
    closing = closing
    loop = loop
    task1 = task1
    task2 = task2
    Langs <- MCLangs
    Ids <- MCIds
    English = en
    Default = nb
    Bundled <- MCBundled
    Compiled <- MCCompiled
    Mapped <- MCMapped
    Loop = loop
    Tasks = {task1, task2}
    NoLang = NoLang
    MaxPuts = 3
    MaxCrashes = 1
INVARIANTS SwitchedIsLoaded LookupsFindTheirLanguage BareKeysAreGaps SpeaksAsConfigured
CHECK_DEADLOCK FALSE
