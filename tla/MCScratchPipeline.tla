----------------------------- MODULE MCScratchPipeline -----------------------------
\* ScratchPipeline on a model with a static case, a response-spectrum case and
\* its modal case, a case ETABS manages, and one that an unlock removes.
EXTENDS ScratchPipeline

CONSTANTS v1, v2, dead, quake, modes, managed, unlocked, c1, c2, gravity, seismic

SomeVersions == {v1, v2}
SomeContents == {Scratch!Whole(v) : v \in SomeVersions} \cup {Scratch!Absent}
SomeCases == {dead, quake, modes, managed, unlocked}
SomeSpectra == {quake}
SomeModalOf == [c \in SomeSpectra |-> modes]
SomeManaged == {managed}
SomeRecreated == {unlocked}
SomeBefore == [c \in SomeCases |-> c \in {dead, managed, unlocked}]
SomeScopes == {{dead}, {dead, quake}, {dead, managed}, {unlocked}}
SomeColumns == {c1, c2}
SomeSelections == {gravity, seismic}

================================================================================
