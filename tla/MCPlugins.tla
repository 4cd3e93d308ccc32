------------------------------ MODULE MCPlugins ------------------------------
\* Instances of Plugins for TLC.
EXTENDS Plugins, TLC

\* Two directories of the same plugin, one of another.
MCName == <<"demo", "other", "demo">>
=============================================================================
