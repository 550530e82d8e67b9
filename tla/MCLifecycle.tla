---- MODULE MCLifecycle ----
EXTENDS Lifecycle
CONSTANT t1

\* The boot of an empty state.
NoTabs == [t \in Tabs |-> "absent"]
====
