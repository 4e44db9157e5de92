--------------------------- MODULE ServedComponent ---------------------------
(***************************************************************************)
(* A component as its client sees it when it keeps the client's rules: the *)
(* scheduler thread takes one command or buffer after the other, the       *)
(* buffers go through the codec and come back in callbacks.  What is       *)
(* behind this is OmxComponent; EncoderApp and DecoderApp are the clients. *)
(***************************************************************************)
EXTENDS Integers, Sequences, SequencesExt, FiniteSets

CONSTANTS
  Buffers, \* port -> the headers the client allocates there
  None

Ports == {"input", "output"}

VARIABLES
  state,     \* "Loaded", "Idle", "Executing"
  commands,  \* the scheduler's FIFO
  treating,  \* the command it is at
  enabled,   \* ports
  allocated, \* port -> buffers
  inside,    \* port -> buffers in its FIFO, with what the client put in them
  returning, \* port -> buffers on their way back, with what they carry
  coding     \* "frame" and "eos" the codec has for output buffers

componentVars == <<state, commands, treating, enabled, allocated, inside, returning, coding>>

State(s) == [cmd |-> "StateSet", arg |-> s]
Flush(p) == [cmd |-> "Flush", arg |-> p]
Enable(p) == [cmd |-> "PortEnable", arg |-> p]
Disable(p) == [cmd |-> "PortDisable", arg |-> p]

Buffer(b, what) == [buffer |-> b, what |-> what]

Populated(p) == allocated[p] = Buffers[p]

(***************************************************************************)
(* The calls of the client.                                                *)
(***************************************************************************)
SendCommand(c) == commands' = Append(commands, c)
UseBuffers(p)  == allocated' = [allocated EXCEPT ![p] = Buffers[p]]
FreeBuffers(p, bs) == allocated' = [allocated EXCEPT ![p] = @ \ bs]
\* EmptyThisBuffer, FillThisBuffer: behind the commands sent before
Submission(p, bs) == [cmd |-> "Buffers", arg |-> p, buffers |-> bs]
Submit(p, bs)  == commands' = Append(commands, Submission(p, bs))

(***************************************************************************)
(* The scheduler thread.                                                   *)
(***************************************************************************)
\* the ports whose buffers a command gives back
GivesBack(c) ==
  CASE c = State("Idle") -> IF state = "Executing" THEN Ports ELSE {}
    [] c.cmd \in {"Flush", "PortDisable"} -> {c.arg}
    [] OTHER -> {}

TakeBuffers ==
  /\ treating = None /\ commands # <<>> /\ Head(commands).cmd = "Buffers"
  /\ inside' = [inside EXCEPT ![Head(commands).arg] = @ \o Head(commands).buffers]
  /\ commands' = Tail(commands)
  /\ UNCHANGED <<state, treating, enabled, allocated, returning, coding>>

Begin ==
  /\ treating = None /\ commands # <<>> /\ Head(commands).cmd # "Buffers"
  /\ LET c == Head(commands)
         back == GivesBack(c)
     IN /\ treating' = c
        /\ enabled' = IF c.cmd = "PortEnable" THEN enabled \cup {c.arg}
                      ELSE IF c.cmd = "PortDisable" THEN enabled \ {c.arg} ELSE enabled
        /\ returning' = [p \in Ports |->
             returning[p] \o (IF p \in back THEN [i \in DOMAIN inside[p] |-> Buffer(inside[p][i].buffer, "nothing")]
                              ELSE <<>>)]
        /\ inside' = [p \in Ports |-> IF p \in back THEN <<>> ELSE inside[p]]
        /\ coding' = IF back = {} THEN coding ELSE <<>>
  /\ commands' = Tail(commands)
  /\ UNCHANGED <<state, allocated>>

\* a command ends when its buffers are back and its ports as they have to be
CanEnd(c) ==
  /\ \A p \in GivesBack(c) : returning[p] = <<>>
  /\ c = State("Idle") => state = "Executing" \/ \A p \in enabled : Populated(p)
  /\ c = State("Loaded") => \A p \in enabled : allocated[p] = {}
  /\ c.cmd = "PortEnable" /\ state # "Loaded" => Populated(c.arg)
  /\ c.cmd = "PortDisable" => allocated[c.arg] = {}

\* the event of its completion is the client's part of the step
End(c) ==
  /\ treating = c /\ CanEnd(c)
  /\ state' = IF c.cmd = "StateSet" THEN c.arg ELSE state
  /\ treating' = None
  /\ UNCHANGED <<commands, enabled, allocated, inside, returning, coding>>

(***************************************************************************)
(* The workers and the codec.                                              *)
(***************************************************************************)
Runs == state = "Executing" /\ (treating # None => GivesBack(treating) = {})

\* an input buffer is empty again, what was in it is coded
Consume ==
  /\ Runs /\ inside["input"] # <<>>
  /\ LET b == Head(inside["input"])
     IN /\ coding' = coding \o b.what
        /\ returning' = [returning EXCEPT !["input"] = Append(@, Buffer(b.buffer, "nothing"))]
  /\ inside' = [inside EXCEPT !["input"] = Tail(@)]
  /\ UNCHANGED <<state, commands, treating, enabled, allocated>>

Produce ==
  /\ Runs /\ "output" \in enabled /\ coding # <<>> /\ inside["output"] # <<>>
  /\ returning' = [returning EXCEPT !["output"] = Append(@, Buffer(Head(inside["output"]).buffer, Head(coding)))]
  /\ inside' = [inside EXCEPT !["output"] = Tail(@)]
  /\ coding' = Tail(coding)
  /\ UNCHANGED <<state, commands, treating, enabled, allocated>>

\* the callback of the first buffer on its way back has returned
Returned(p) == returning' = [returning EXCEPT ![p] = Tail(@)]

InitComponent ==
  /\ state = "Loaded" /\ commands = <<>> /\ treating = None /\ enabled = Ports
  /\ allocated = [p \in Ports |-> {}]
  /\ inside = [p \in Ports |-> <<>>] /\ returning = [p \in Ports |-> <<>>] /\ coding = <<>>
=============================================================================
