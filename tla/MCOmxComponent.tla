---------------------------- MODULE MCOmxComponent ----------------------------
(* Instances of OmxComponent for TLC: the clients of the runs.               *)
EXTENDS OmxComponent, TLC

Set(s)     == [cmd |-> "SetState", data |-> s]
Flush(d)   == [cmd |-> "Flush", data |-> d]
Disable(d) == [cmd |-> "DisablePort", data |-> d]
Enable(d)  == [cmd |-> "EnablePort", data |-> d]

OneEach  == [d \in Dirs |-> 1]
TwoOne   == [d \in Dirs |-> IF d = "in" THEN 2 ELSE 1]
TwoEach  == [d \in Dirs |-> 2]
OneTwo   == [d \in Dirs |-> IF d = "in" THEN 1 ELSE 2]

\* the headers of a port are alike
Symm == Permutations(InBuffers) \cup Permutations(OutBuffers)

\* a client that only plays: load, run, pause, flush
Lifecycle ==
  {<<"Loaded", Set("Idle")>>, <<"Idle", Set("Executing")>>, 
   <<"Executing", Set("Pause")>>, <<"Pause", Set("Executing")>>, 
   <<"Executing", Set("Idle")>>, <<"Executing", Flush("in")>>, <<"Executing", Flush("out")>>}

\* one that loads, runs, and sends no other command
Straight == {<<"Loaded", Set("Idle")>>, <<"Idle", Set("Executing")>>}

\* the same as Lifecycle, closing and reopening its ports and unloading as well
WithPorts ==
  Lifecycle \cup {<<"Pause", Set("Idle")>>, <<"Idle", Set("Loaded")>>, <<"Idle", Set("Pause")>>}
  \cup ({"Idle", "Executing", "Pause"} \X [cmd : {"DisablePort", "EnablePort"}, data : Dirs])

\* from Idle on, any legal transition and any port command
Streams ==
  {<<"Loaded", Set("Idle")>>, <<"Idle", Set("Executing")>>, <<"Idle", Set("Pause")>>,
   <<"Executing", Set("Idle")>>, <<"Executing", Set("Pause")>>,
   <<"Pause", Set("Idle")>>, <<"Pause", Set("Executing")>>}
  \cup ({"Executing", "Pause"} \X PortCommands)

\* any command the component accepts, at any time
AnyTime == States \X (StateCommands \cup PortCommands \cup AllCommands)
=============================================================================
