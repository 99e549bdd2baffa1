---- MODULE MCLanguages ----
EXTENDS Languages

CONSTANTS en, nb, am, de, eo, started, closing, loop, task1, task2

MCLangs == {en, nb, am, de, eo}
MCIds == {started, closing}

File(sound, texts) == [sound |-> sound, texts |-> texts]
Complete == File(TRUE, MCIds)
Partial  == File(TRUE, {started})
Refused  == File(FALSE, MCIds)

\* The bundled Amharic file is refused and Kubo's is not; of Norwegian Kubo has less than
\* the binary, and a refused file that no switch may take. German is known to the build and
\* not bundled, Esperanto comes with the map only.
MCBundled  == [l \in {en, nb, am} |-> IF l = am THEN Refused ELSE Complete]
MCCompiled == [l \in {nb, de} |-> IF l = nb THEN Refused ELSE Partial]
MCMapped   == [l \in {nb, am, de, eo} |->
                  CASE l = nb -> Partial [] l = eo -> Refused [] OTHER -> Complete]
====
