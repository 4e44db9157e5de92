----------------------------- MODULE ILComponent -----------------------------
(***************************************************************************)
(* What an OpenMAX IL client may rely on, whatever happens inside the        *)
(* component: the state moves along the legal transitions only and leaves    *)
(* Invalid never, and each buffer header passes from hand to hand: the        *)
(* client allocates it, submits it, gets it back once, frees it.             *)
(* OmxComponent is shown to implement this specification.                    *)
(***************************************************************************)
EXTENDS OmxChecker

CONSTANT Buffers  \* every header the client may ever allocate

VARIABLES
  state, \* what GetState answers
  owner  \* who has each header: "nobody", "client" or "component"

vars == <<state, owner>>

OwnedBy(who) == {b \in Buffers : owner[b] = who}

Init ==
  /\ state = "Loaded"
  /\ owner = [b \in Buffers |-> "nobody"]

\* UseBuffer or AllocateBuffer, and FreeBuffer
Allocate(b) == owner[b] = "nobody" /\ owner' = [owner EXCEPT ![b] = "client"]
Free(b)     == owner[b] = "client" /\ owner' = [owner EXCEPT ![b] = "nobody"]

\* EmptyThisBuffer or FillThisBuffer
Submit(b) ==
  /\ owner[b] = "client"
  /\ state \notin Refused("EmptyThisBuffer") \cap Refused("FillThisBuffer")
  /\ owner' = [owner EXCEPT ![b] = "component"]

\* EmptyBufferDone and FillBufferDone, for any number of headers
Return(bs) == owner' = [b \in Buffers |-> IF b \in bs THEN "client" ELSE owner[b]]

\* a state transition; on the way the component may give headers back
Transition(new) ==
  /\ CheckStateTransition(state, new) \in {"None", "InvalidState"}
  /\ state' = new

Next ==
  \/ UNCHANGED state /\ \E b \in Buffers : Allocate(b) \/ Free(b) \/ Submit(b)
  \/ /\ \E bs \in SUBSET OwnedBy("component") : Return(bs)
     /\ UNCHANGED state \/ \E new \in States : Transition(new)

Spec == Init /\ [][Next]_vars
=============================================================================
