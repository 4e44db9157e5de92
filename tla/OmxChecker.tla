------------------------------ MODULE OmxChecker ------------------------------
(***************************************************************************)
(* The tables of the OpenMAX IL state machine: OMXChecker                   *)
(* (base/omx_checker/omx_checker.cpp) and the transition predicates at the   *)
(* top of base/omx_component/omx_component.cpp.  Constant operators only.     *)
(***************************************************************************)

States == {"Loaded", "WaitForResources", "Idle", "Executing", "Pause", "Invalid"}

\* the exceptions the checker throws; "None" when it throws nothing
Errors == {"None", "SameState", "Undefined", "InvalidState", "IncorrectStateTransition"}

\* CheckStateOperation: the states in which a method of the component is refused.
\* UseBuffer and AllocateBuffer have an entry, but the component never asks.
Refused(method) ==
  CASE method \in {"SendCommand", "GetComponentVersion", "GetParameter", "GetConfig",
                   "SetConfig", "GetExtensionIndex"} -> {"Invalid"}
    [] method = "SetParameter" -> {"Idle", "Executing", "Pause", "Invalid"}
    [] method \in {"UseBuffer", "AllocateBuffer"} -> {"Pause", "Invalid"}
    [] method \in {"EmptyThisBuffer", "FillThisBuffer"} ->
         {"Loaded", "WaitForResources", "Invalid"}
    [] method \in {"SetCallbacks", "ComponentTunnelRequest"} -> States \ {"Loaded"}
    [] OTHER -> {}  \* GetState, FreeBuffer, ComponentDeinit, UseEGLImage, ComponentRoleEnum

\* CheckStateTransition: the pairs it refuses between two valid states
Incorrect ==
  ({"Loaded", "WaitForResources"} \X {"Executing", "Pause"})
  \cup {<<"Idle", "WaitForResources">>}
  \cup ({"Executing", "Pause"} \X {"WaitForResources", "Loaded"})

CheckStateTransition(cur, new) ==
  IF new = cur THEN "SameState"
  ELSE IF cur = "Invalid" THEN "Undefined"
  ELSE IF new = "Invalid" THEN "InvalidState"
  ELSE IF <<cur, new>> \in Incorrect THEN "IncorrectStateTransition"
  ELSE "None"

\* TransientState: the pair of states it names, or TransientState::Max
MaxTransient == <<>>
TransientStates ==
  {<<"Loaded", "Idle">>, <<"Idle", "Pause">>, <<"Idle", "Loaded">>,
   <<"Idle", "Executing">>, <<"Pause", "Executing">>, <<"Pause", "Idle">>,
   <<"Executing", "Idle">>, <<"Executing", "Pause">>}

GetTransientState(cur, new) ==
  IF <<cur, new>> \in TransientStates THEN <<cur, new>> ELSE MaxTransient

\* the predicates TreatSetStateCommand is built from
ToIdleFromLoadedOrWait(cur, new)    == new = "Idle" /\ cur \in {"Loaded", "WaitForResources"}
ToLoaded(cur, new)                  == new = "Loaded" /\ cur \in {"Idle", "WaitForResources"}
ToExecutingOrPause(cur, new)        == new \in {"Executing", "Pause"} /\ cur = "Idle"
ToIdleFromExecutingOrPause(cur, new) == new = "Idle" /\ cur \in {"Executing", "Pause"}
\* slip: no fences on the way from Executing
ToPauseFromIdle(cur, new) == new = "Pause" /\ cur = "Idle"

ToPause(cur, new)                   == new = "Pause" /\ cur \in {"Executing", "Idle"}

\* slip: no flush on the way from Executing to Idle
FlushingRequiredNotToIdle(cur, new) ==
  /\ CheckStateTransition(cur, new) = "None"
  /\ GetTransientState(cur, new) = <<"Executing", "Pause">>

\* isFlushingRequired: the checker's exception for newState = Invalid makes
\* its last disjunct, newState == OMX_StateInvalid, unreachable
FlushingRequired(cur, new) ==
  /\ CheckStateTransition(cur, new) = "None"
  /\ \/ GetTransientState(cur, new) \in {<<"Executing", "Pause">>, <<"Executing", "Idle">>}
     \/ new = "Invalid"
=============================================================================
