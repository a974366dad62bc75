----------------------------- MODULE MCServices -----------------------------
(* Four services beside the governed lifecycle: verification and its       *)
(* index, holds of commands, the registry of modules, observation and      *)
(* health.  They share no state, so one run takes them one at a time.      *)
EXTENDS VerificationIndex, CommandHolds, ModuleRegistry, PlatformHealth

VARIABLE part    \* the service of this behavior

ServicesInit ==
    /\ part \in {"verification", "commands", "modules", "health"}
    /\ Init
    /\ CommandInit
    /\ ModuleInit
    /\ target["m1"] = "audit" /\ target["m2"] = "audit"
    /\ part # "modules" => target["m3"] = "audit"
    /\ HealthInit

ServicesNext ==
    \/ /\ part = "verification" /\ Next
       /\ UNCHANGED <<commandVars, moduleVars, healthVars, part>>
    \/ /\ part = "commands" /\ CommandNext
       /\ UNCHANGED <<vars, moduleVars, healthVars, part>>
    \/ /\ part = "modules" /\ ModuleNext
       /\ UNCHANGED <<vars, commandVars, healthVars, part>>
    \/ /\ part = "health" /\ HealthNext
       /\ UNCHANGED <<vars, commandVars, moduleVars, part>>

ServicesSpec == ServicesInit /\ [][ServicesNext]_<<vars, commandVars, moduleVars, healthVars, part>>

GatedRoutes == AllRoutes \ Ungated
=============================================================================
