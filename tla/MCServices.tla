----------------------------- MODULE MCServices -----------------------------
(* The services a guest uses one at a time: `service` names the one a        *)
(* behaviour is about, and only its component moves.                         *)
EXTENDS Sound, UserInput, Registry, Profiles, Automation, Exceptions, MainLoop

VARIABLE service

SoundDuplicates == {{"Duplicate"}, {"SetFormat"}, {"SetCurrentPosition"}}
MCRegData == {TemplatePath, "other"}
MCAutoSteps == <<"file", "file", "delay">>
MCNeedle == <<"a", "b">>
Clicks == {"chain", "manual", "double"}

servicesVars == <<soundVars, inputVars, regVars, iniVars, autoVars, sehVars, loopVars,
                  controlVars, service>>

ServicesInit ==
    /\ service \in {"sound", "input", "registry", "profiles", "exceptions", "loop",
                    "controls"} \cup Clicks
    (* the components the behaviour is not about have one initial state *)
    /\ IF service = "registry" THEN TRUE
       ELSE setup = [atHome |-> TRUE, moves |-> FALSE] /\ values = <<>>
    /\ IF service = "profiles" THEN TRUE ELSE ini = [s \in Section |-> NoSection]
    /\ IF service = "chain" THEN TRUE ELSE logFile = <<>>
    /\ IF service = "exceptions" THEN TRUE ELSE hasty = FALSE
    /\ IF service = "loop" THEN TRUE
       ELSE guest = [patient |-> FALSE, debugged |-> FALSE, timers |-> FALSE]
    /\ SoundInit /\ InputInit /\ RegInit /\ IniInit /\ AutoInit(service) /\ SehInit /\ MainLoopInit
    /\ ControlsInit
    /\ guest.debugged => ~guest.patient

ServicesNext ==
    /\ UNCHANGED service
    /\ \/ service = "sound" /\ SoundNext
          /\ UNCHANGED <<inputVars, regVars, iniVars, autoVars, sehVars,
                         loopVars, controlVars>>
       \/ service = "input" /\ InputNext
          /\ UNCHANGED <<soundVars, regVars, iniVars, autoVars, sehVars,
                         loopVars, controlVars>>
       \/ service = "registry" /\ RegNext
          /\ UNCHANGED <<soundVars, inputVars, iniVars, autoVars, sehVars,
                         loopVars, controlVars>>
       \/ service = "profiles" /\ IniNext
          /\ UNCHANGED <<soundVars, inputVars, regVars, autoVars, sehVars,
                         loopVars, controlVars>>
       \/ service \in Clicks /\ AutoNext(service)
          /\ UNCHANGED <<soundVars, inputVars, regVars, iniVars, sehVars,
                         loopVars, controlVars>>
       \/ service = "exceptions" /\ SehNext
          /\ UNCHANGED <<soundVars, inputVars, regVars, iniVars, autoVars,
                         loopVars, controlVars>>
       \/ service = "loop" /\ MainLoopNext
          /\ UNCHANGED <<soundVars, inputVars, regVars, iniVars, autoVars,
                         sehVars, controlVars>>
       \/ service = "controls" /\ ControlsNext
          /\ UNCHANGED <<soundVars, inputVars, regVars, iniVars, autoVars,
                         sehVars, loopVars>>

ServicesSpec ==
    /\ ServicesInit /\ [][ServicesNext]_servicesVars
    /\ WF_servicesVars(
          /\ service = "exceptions" /\ SehSteps
          /\ UNCHANGED <<soundVars, inputVars, regVars, iniVars, autoVars,
                         loopVars, controlVars, service>>)
    /\ WF_servicesVars(
          /\ service = "loop" /\ LoopSteps
          /\ UNCHANGED <<soundVars, inputVars, regVars, iniVars, autoVars,
                         sehVars, controlVars, service>>)
=============================================================================
