-------------------------- MODULE MCTaskLifecycle --------------------------
(* TaskLifecycle for TLC: the types the plugins know.                      *)
EXTENDS TaskLifecycle, TLC

AllTypesKnown == {}

\* The plugin of an instance has an older version, which knows no type.
OneOlder == {CHOOSE i \in Instances : TRUE} \X Tasks
=============================================================================
