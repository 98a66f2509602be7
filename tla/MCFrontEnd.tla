------------------------------ MODULE MCFrontEnd ------------------------------
(* Constants of the model-checking runs of FrontEnd.                         *)
EXTENDS FrontEnd

Pulse(nominal) == [nominal |-> nominal, pause |-> FALSE, stop |-> "no"]
Pause(nominal) == [nominal |-> nominal, pause |-> TRUE, stop |-> "no"]
StopMarker(stop) == [nominal |-> 0, pause |-> FALSE, stop |-> stop]

\* A TAP: a pulse that falls between two ticks of a 128K, a pause; one block.
Tap ==
  [tap |-> TRUE, choice |-> FALSE, target |-> "unknown", blocks |-> <<1>>,
   segments |-> <<Pulse(10), Pause(13)>>]
\* A TZX that asks, stops on a 48K in the middle, and has two blocks.
Tzx ==
  [tap |-> FALSE, choice |-> TRUE, target |-> "48", blocks |-> <<1, 4>>,
   segments |-> <<Pulse(8), Pause(17), StopMarker("48K"), Pulse(25)>>]

Use(events, images, models, programs, autoload, fast, history) ==
  [events |-> events, images |-> images, codes |-> {"a", "A"},
   models |-> models, model |-> CHOOSE m \in models : TRUE,
   programs |-> programs, autoload |-> autoload, fast |-> fast,
   history |-> history]

Program(load, reads) == [load |-> load, reads |-> reads]
Quiet == {Program("no", "none")}
Reading == {Program("no", "scan")}
Old == {"48K", "128K"}

\* Loads of every kind and their failures, against changes of machine and the
\* end of the program.
Loading(autoload) ==
  Use({"open", "snapshot", "drop", "machine", "next", "close", "failures"},
      {Tap, Tzx}, Models, {}, autoload, FALSE, FALSE)
\* A tape played, fast loaded and stopped, on machines that change.
Playing(image, fast) ==
  Use({"open", "machine", "tape"}, {image}, Old, Programs, FALSE, fast, FALSE)
Swapping ==
  Use({"open", "tape", "cartridge", "machine", "fast"}, {Tzx}, {"48K", "plus3"},
      Reading, FALSE, FALSE, FALSE)
\* A tape that loads itself, with everything that gets in its way.
Autoloading(events) ==
  Use({"open"} \union events, {Tap, Tzx}, Old, Reading, TRUE, TRUE, FALSE)
\* Keys held while the machine changes and is rewound.
Typing(events, history) ==
  Use({"keys"} \union events, {}, {"48K", "plus3"}, Quiet, TRUE, FALSE, history)
Rewinding ==
  Use({"open", "tape", "rewind", "machine"}, {Tap}, Old, Reading, FALSE, FALSE,
      TRUE)

AllUses ==
  {Loading(TRUE), Loading(FALSE), Playing(Tzx, TRUE), Playing(Tap, FALSE),
   Swapping, Autoloading({"next", "reset", "machine"}),
   Autoloading({"disk", "tape", "fast"}),
   Autoloading({"snapshot", "timed", "tape"}),
   Typing({"next", "disk", "reset", "machine"}, FALSE),
   Typing({"next", "snapshot", "failures"}, FALSE),
   Typing({"rewind", "disk", "machine"}, TRUE), Rewinding}
KeyUses == {Use({"keys", "rewind"}, {}, {"48K"}, Quiet, TRUE, FALSE, TRUE)}
===============================================================================
