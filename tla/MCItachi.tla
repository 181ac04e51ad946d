------------------------------ MODULE MCItachi -----------------------------
EXTENDS Itachi

App(hint, kinds, stops, most) ==
  [hint |-> hint, kinds |-> kinds, stops |-> stops, starts |-> most]

\* Two applications never stop, their two contexts on one CPU thread: one waits
\* for network events and runs an urgent context between them, one mixes
\* urgent and other CPU events.  One starts and stops twice, its contexts on
\* different CPU threads.
MCApps ==
  {App(<<1, 3>>, <<{"NET"}, {"URGENT", "NET"}>>, FALSE, 1),
   App(<<1, 3>>, <<{"CPU", "URGENT"}, {"CPU", "URGENT"}>>, FALSE, 1),
   App(<<1, 2>>, <<{"CPU"}, {"CPU"}>>, TRUE, 2)}

\* Network events are under way when stop() is called.
MCAppStopsNet == {App(<<1>>, <<{"CPU", "NET"}>>, TRUE, 1)}
============================================================================
