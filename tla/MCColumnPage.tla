-------------------------------- MODULE MCColumnPage --------------------------------
\* ColumnPage with one other program.
EXTENDS ColumnPage

CONSTANTS start, edited, malformed, script

SomeInputs == {start, edited, malformed}
SomeWellFormed == {start, edited}
SomePrograms == {script}
SomeCallers == Tasks \cup SomePrograms

================================================================================
