---------------------------------- MODULE MCGui ----------------------------------
\* Three operations are enough for a preset or a second task beside or after a
\* task whose log entry, dialog or flag is left over.
EXTENDS GuiSession

CONSTANTS t1, t2
MCTorrents == {t1, t2}
=============================================================================
