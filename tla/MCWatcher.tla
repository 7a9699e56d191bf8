------------------------------ MODULE MCWatcher ------------------------------
\* Two schema files, one of them in a subdirectory, and a file that is none.
EXTENDS Watcher, TLC

CONSTANTS a, s, x

MCPath == {a, s, x}
MCSchemaFile == {a, s}
MCBelow == {s}
=============================================================================
